---------------------------- MODULE Spec2Model ----------------------------
(***************************************************************************)
(* A model of keystone/common/ldap/core.py: the DN comparison routines,    *)
(* the value codec, the KeystoneLDAPHandler search path with its           *)
(* paged-search loop and its logged writes, and the BaseLdap /             *)
(* EnabledEmuMixIn CRUD engine running against a directory; and of the     *)
(* request filters of keystone/middleware/core.py.                         *)
(*                                                                         *)
(* Text is a sequence of one-character strings, so that lower(), strip()   *)
(* and the whitespace regular expression are computed, not assumed.        *)
(***************************************************************************)
EXTENDS Integers, Sequences, FiniteSets, TLC

VARIABLES
    dnIn,      \* the two DNs handed to the DN routines: [d |-> DN, a |-> DN]
    dnOut,     \* what the DN routines returned for dnIn, or NoResult
    \* one KeystoneLDAPHandler and the server it talks to
    hpc,            \* "new", "idle", or "paging" inside _paged_search_s
    page_size,      \* KeystoneLDAPHandler.page_size
    conn_page_size, \* page_size of the wrapped PythonLDAPHandler (self.conn)
    lc,             \* controlValue of the paging control: [size, cookie]
    res,            \* the list _paged_search_s accumulates
    reqs,           \* the search requests of the current search_s, in order
    resps,          \* the responses to them, in order
    ret,            \* what the last finished search_s returned
    warnings,       \* paging-unsupported warnings logged on this handler
    \* one BaseLdap / EnabledEmuMixIn object and the directory behind it
    conf,      \* the object's configuration, fixed at construction
    dir,       \* the directory's content
    last,      \* the operation that just finished and its outcome, or Idle
    \* one KeystoneLDAPHandler write made twice, with two password values
    logIn,     \* the call: [op, dn, kind, a, b], a and b the two value lists
    logOut,    \* the events of the two runs: [a, b], or NoEvents
    \* one value handed to the codec routines
    codecIn,   \* a Python value, or a raw search result
    codecOut,  \* what the routine returned: [op, out], or NoOutput
    \* one request handed to a middleware's process_request
    mwIn,      \* the request and CONF.admin_token
    mwOut,     \* what process_request left in request.environ and returned
    \* engine calls running concurrently against the directory
    procs      \* for each caller, where its call is and what it holds

dnVars == <<dnIn, dnOut>>

handlerVars == <<hpc, page_size, conn_page_size, lc, res, reqs, resps, ret,
                 warnings>>

crudVars == <<conf, dir, last>>

logVars == <<logIn, logOut>>

codecVars == <<codecIn, codecOut>>

mwVars == <<mwIn, mwOut>>

concVars == <<procs>>

pureVars == <<logVars, codecVars, mwVars, concVars>>

vars == <<dnVars, handlerVars, crudVars, pureVars>>

None == "None"
NoResult == [op |-> "none", fwd |-> FALSE, rev |-> FALSE, self |-> FALSE,
             perm |-> {}]

-----------------------------------------------------------------------------
(* Text helpers                                                            *)

\* the characters \s matches among the ones the model uses
IsSpace(c) == c \in {" ", "\t"}

\* str.lower() on one character
LowerChar(c) == CASE c = "A" -> "a"
                  [] c = "B" -> "b"
                  [] c = "C" -> "c"
                  [] c = "N" -> "n"
                  [] c = "O" -> "o"
                  [] c = "U" -> "u"
                  [] OTHER -> c

\* str.lower()
Lower(s) == [i \in 1..Len(s) |-> LowerChar(s[i])]

RECURSIVE LStrip(_)
LStrip(s) == IF s # <<>> /\ IsSpace(Head(s)) THEN LStrip(Tail(s)) ELSE s

RECURSIVE RStrip(_)
RStrip(s) == IF s # <<>> /\ IsSpace(s[Len(s)])
             THEN RStrip(SubSeq(s, 1, Len(s) - 1)) ELSE s

\* str.strip()
Strip(s) == RStrip(LStrip(s))

\* re.sub(r'\s+', ' ', s): every maximal run of whitespace becomes one space
RECURSIVE SubSpaces(_)
SubSpaces(s) ==
    IF s = <<>> THEN <<>>
    ELSE IF IsSpace(Head(s))
         THEN <<" ">> \o SubSpaces(LStrip(s))
         ELSE <<Head(s)>> \o SubSpaces(Tail(s))

-----------------------------------------------------------------------------
(* DN algebra                                                              *)
(* An AVA is [type, val]; an RDN is a sequence of AVAs; a DN is a sequence *)
(* of RDNs, as ldap.dn.str2dn returns them.                                *)

prep_case_insensitive(value) == SubSpaces(Lower(Strip(value)))

is_ava_value_equal(attribute_type, val1, val2) ==
    prep_case_insensitive(val1) = prep_case_insensitive(val2)

\* positions of rdn2 whose attribute type matches attr_type_1
SameTypeAt(attr_type_1, rdn2) ==
    {j \in 1..Len(rdn2) : Lower(attr_type_1) = Lower(rdn2[j].type)}

SetMin(S) == CHOOSE x \in S : \A y \in S : x <= y

\* the loop of is_rdn_equal without the length test before it
is_rdn_equal_unsized(rdn1, rdn2) ==
    \A i \in 1..Len(rdn1) :
        LET js == SameTypeAt(rdn1[i].type, rdn2)
        IN  /\ js # {}
            /\ is_ava_value_equal(rdn1[i].type, rdn1[i].val,
                                  rdn2[SetMin(js)].val)

is_rdn_equal(rdn1, rdn2) ==
    IF Len(rdn1) # Len(rdn2) THEN FALSE
    ELSE \A i \in 1..Len(rdn1) :
            LET js == SameTypeAt(rdn1[i].type, rdn2)
            IN  /\ js # {}
                /\ is_ava_value_equal(rdn1[i].type, rdn1[i].val,
                                      rdn2[SetMin(js)].val)

\* a comparison that takes the RDNs of a DN as a set
is_dn_equal_unordered(dn1, dn2) ==
    /\ Len(dn1) = Len(dn2)
    /\ \A i \in 1..Len(dn1) : \E j \in 1..Len(dn2) : is_rdn_equal(dn1[i], dn2[j])

is_dn_equal(dn1, dn2) ==
    IF Len(dn1) # Len(dn2) THEN FALSE
    ELSE \A i \in 1..Len(dn1) : is_rdn_equal(dn1[i], dn2[i])

\* descendant_dn[len(dn):]
SliceFrom(s, n) == SubSeq(s, n + 1, Len(s))

dn_startswith(descendant_dn, dn) ==
    IF Len(descendant_dn) <= Len(dn) THEN FALSE
    ELSE is_dn_equal(SliceFrom(descendant_dn, Len(dn)), dn)

-----------------------------------------------------------------------------
(* Codec                                                                   *)
(* A Python value is a record [t, b, n, s]: t its type ("bool", "int",     *)
(* "text" for unicode, "bytes" for str, "none"), or t = "raise" for an     *)
(* exception, named in s.  A text is a sequence of characters, a byte      *)
(* string a sequence of bytes; an ASCII character and its byte are the     *)
(* same one-character string, the character U+00E9 is "U+E9" and its       *)
(* UTF-8 encoding the two bytes "xC3", "xA9".                              *)

PyBool(b)  == [t |-> "bool",  b |-> b,     n |-> 0, s |-> <<>>]
PyInt(n)   == [t |-> "int",   b |-> FALSE, n |-> n, s |-> <<>>]
PyText(s)  == [t |-> "text",  b |-> FALSE, n |-> 0, s |-> s]
PyBytes(s) == [t |-> "bytes", b |-> FALSE, n |-> 0, s |-> s]
PyNone     == [t |-> "none",  b |-> FALSE, n |-> 0, s |-> <<>>]
PyRaise(e) == [t |-> "raise", b |-> FALSE, n |-> 0, s |-> <<e>>]

Raised(v) == v.t = "raise"

DigitChars == <<"0", "1", "2", "3", "4", "5", "6", "7", "8", "9">>

IsDigit(c) == \E i \in 1..10 : DigitChars[i] = c

DigitVal(c) == (CHOOSE i \in 1..10 : DigitChars[i] = c) - 1

RECURSIVE NatText(_)
NatText(n) == IF n < 10 THEN <<DigitChars[n + 1]>>
              ELSE NatText(n \div 10) \o <<DigitChars[(n % 10) + 1]>>

\* unicode(n) for an int
IntText(n) == IF n < 0 THEN <<"-">> \o NatText(-n) ELSE NatText(n)

RECURSIVE DigitsVal(_)
DigitsVal(s) == IF s = <<>> THEN 0
                ELSE 10 * DigitsVal(SubSeq(s, 1, Len(s) - 1))
                     + DigitVal(s[Len(s)])

AllDigits(s) == s # <<>> /\ \A i \in 1..Len(s) : IsDigit(s[i])

\* int(val) for a string: surrounding whitespace and one sign are accepted
ParseInt(s) ==
    LET body == Strip(s)
        signed == body # <<>> /\ Head(body) \in {"+", "-"}
        digits == IF signed THEN Tail(body) ELSE body
    IN  IF AllDigits(digits)
        THEN PyInt(IF signed /\ Head(body) = "-"
                   THEN -DigitsVal(digits) ELSE DigitsVal(digits))
        ELSE PyRaise("ValueError")

\* codecs.getencoder('utf-8') on a text
RECURSIVE Utf8Bytes(_)
Utf8Bytes(s) == IF s = <<>> THEN <<>>
                ELSE (IF Head(s) = "U+E9" THEN <<"xC3", "xA9">>
                      ELSE <<Head(s)>>) \o Utf8Bytes(Tail(s))

IsAsciiByte(c) == c \notin {"xC3", "xA9"}

\* a byte string that is the UTF-8 encoding of some text
RECURSIVE ValidUtf8(_)
ValidUtf8(bs) ==
    IF bs = <<>> THEN TRUE
    ELSE IF Head(bs) = "xC3"
         THEN Len(bs) >= 2 /\ bs[2] = "xA9" /\ ValidUtf8(Tail(Tail(bs)))
         ELSE IsAsciiByte(Head(bs)) /\ ValidUtf8(Tail(bs))

\* codecs.getdecoder('utf-8') on valid UTF-8
RECURSIVE Utf8Chars(_)
Utf8Chars(bs) == IF bs = <<>> THEN <<>>
                 ELSE IF Head(bs) = "xC3"
                      THEN <<"U+E9">> \o Utf8Chars(Tail(Tail(bs)))
                      ELSE <<Head(bs)>> \o Utf8Chars(Tail(bs))

\* six.text_type(value), Python 2's unicode(): a str is decoded as ASCII
text_type(value) ==
    CASE value.t = "text"  -> value
      [] value.t = "bytes" ->
            IF \A i \in 1..Len(value.s) : IsAsciiByte(value.s[i])
            THEN PyText(value.s) ELSE PyRaise("UnicodeDecodeError")
      [] value.t = "int"   -> PyText(IntText(value.n))
      [] value.t = "bool"  -> PyText(IF value.b THEN <<"T", "r", "u", "e">>
                                     ELSE <<"F", "a", "l", "s", "e">>)
      [] value.t = "none"  -> PyText(<<"N", "o", "n", "e">>)
      [] OTHER -> value

utf8_encode(value) ==
    CASE value.t = "text"  -> PyBytes(Utf8Bytes(value.s))
      [] value.t = "bytes" -> value
      [] value.t = "raise" -> value
      [] OTHER -> PyRaise("TypeError")

utf8_decode(value) ==
    IF value.t = "bytes"
    THEN IF ValidUtf8(value.s) THEN PyText(Utf8Chars(value.s))
         ELSE PyRaise("UnicodeDecodeError")
    ELSE text_type(value)

TextTRUE == <<"T", "R", "U", "E">>
TextFALSE == <<"F", "A", "L", "S", "E">>

\* a conversion that writes a boolean as Python prints it
py2ldap_as_text(val) == text_type(val)

py2ldap(val) ==
    IF val.t = "bool" THEN PyText(IF val.b THEN TextTRUE ELSE TextFALSE)
    ELSE text_type(val)

IsString(val) == val.t \in {"text", "bytes"}

\* LDAP_VALUES[val], then int(val), then utf8_decode(val)
ldap2py(val) ==
    IF IsString(val) /\ val.s = TextTRUE THEN PyBool(TRUE)
    ELSE IF IsString(val) /\ val.s = TextFALSE THEN PyBool(FALSE)
    ELSE IF IsString(val) /\ ~Raised(ParseInt(val.s)) THEN ParseInt(val.s)
    ELSE utf8_decode(val)

\* A raw search result item is [ref, dn, attrs]: ref is TRUE for a referral,
\* whose dn is None; attrs maps attribute names to lists of values.
RawEntry(dn, attrs) == [ref |-> FALSE, dn |-> dn, attrs |-> attrs]
Referral(attrs)     == [ref |-> TRUE, dn |-> PyNone, attrs |-> attrs]

\* one (dn, attrs) pair of convert_ldap_result's py_result
ConvertEntry(e) ==
    [ref |-> FALSE,
     dn |-> utf8_decode(e.dn),
     attrs |-> [kind \in DOMAIN e.attrs |->
                   [i \in 1..Len(e.attrs[kind]) |-> ldap2py(e.attrs[kind][i])]]]

EntryRaises(pe) ==
    \/ Raised(pe.dn)
    \/ \E kind \in DOMAIN pe.attrs :
          \E i \in 1..Len(pe.attrs[kind]) : Raised(pe.attrs[kind][i])

IsEntry(e) == ~e.ref

\* a conversion that takes every item for an entry
convert_every_item(ldap_result) ==
    IF \E i \in 1..Len(ldap_result) : EntryRaises(ConvertEntry(ldap_result[i]))
    THEN [exc |-> "UnicodeDecodeError", val |-> <<>>]
    ELSE [exc |-> "none",
          val |-> [i \in 1..Len(ldap_result) |-> ConvertEntry(ldap_result[i])]]

\* [exc, val]: the list convert_ldap_result returns, or the exception of
\* the first conversion that fails
convert_ldap_result(ldap_result) ==
    LET kept == SelectSeq(ldap_result, IsEntry)
        py_result == [i \in 1..Len(kept) |-> ConvertEntry(kept[i])]
    IN  IF \E i \in 1..Len(py_result) : EntryRaises(py_result[i])
        THEN [exc |-> "UnicodeDecodeError", val |-> <<>>]
        ELSE [exc |-> "none", val |-> py_result]

-----------------------------------------------------------------------------
(* The DNs the DN specification draws its inputs from                      *)

MaxDnLen == 3

Ava(t, v) == [type |-> t, val |-> v]

RdnUniverse ==
    { <<Ava(<<"c", "n">>, <<"a">>)>>,
      <<Ava(<<"C", "N">>, <<" ", "A">>)>>,
      <<Ava(<<"o", "u">>, <<"a", " ", "\t", "b">>)>>,
      <<Ava(<<"o", "u">>, <<"A", " ", "b">>), Ava(<<"c", "n">>, <<"b">>)>>,
      <<Ava(<<"c", "n">>, <<"B">>), Ava(<<"O", "U">>, <<"a", " ", "b">>)>> }

\* the non-empty sequences over S of length n at most
SeqsUpTo(S, n) == UNION {[1..k -> S] : k \in 1..n}

DnUniverse == SeqsUpTo(RdnUniverse, MaxDnLen)

\* the second DN is kept one RDN shorter at most, which keeps every depth
\* difference from 0 to MaxDnLen in the inputs
DnInput == /\ dnIn \in [d : DnUniverse, a : SeqsUpTo(RdnUniverse, MaxDnLen - 1)]
           /\ dnOut = NoResult

DnUnused == /\ dnIn = [d |-> <<>>, a |-> <<>>]
            /\ dnOut = NoResult

\* dn_startswith called both ways round on the pair
DnStartsWith ==
    /\ dnOut = NoResult
    /\ dnOut' = [op |-> "dn_startswith",
                 fwd |-> dn_startswith(dnIn.d, dnIn.a),
                 rev |-> dn_startswith(dnIn.a, dnIn.d),
                 self |-> dn_startswith(dnIn.d, dnIn.d),
                 perm |-> {}]
    /\ UNCHANGED <<dnIn, handlerVars, crudVars, pureVars>>

\* is_dn_equal called both ways round on the pair
DnEqual ==
    /\ dnOut = NoResult
    /\ dnOut' = [op |-> "is_dn_equal",
                 fwd |-> is_dn_equal(dnIn.d, dnIn.a),
                 rev |-> is_dn_equal(dnIn.a, dnIn.d),
                 self |-> is_dn_equal(dnIn.d, dnIn.d),
                 perm |-> {}]
    /\ UNCHANGED <<dnIn, handlerVars, crudVars, pureVars>>

\* the AVAs of one RDN in every order
Reordered(rdn) ==
    {[i \in 1..Len(rdn) |-> rdn[p[i]]] : p \in Permutations(1..Len(rdn))}

\* is_rdn_equal called on the first RDNs of the pair: both ways round, on
\* the first one against itself, and with the AVAs of each in every order
RdnEqual ==
    /\ dnOut = NoResult
    /\ dnOut' = [op |-> "is_rdn_equal",
                 fwd |-> is_rdn_equal(dnIn.d[1], dnIn.a[1]),
                 rev |-> is_rdn_equal(dnIn.a[1], dnIn.d[1]),
                 self |-> is_rdn_equal(dnIn.d[1], dnIn.d[1]),
                 perm |-> {is_rdn_equal(r1, r2) :
                              r1 \in Reordered(dnIn.d[1]),
                              r2 \in Reordered(dnIn.a[1])}]
    /\ UNCHANGED <<dnIn, handlerVars, crudVars, pureVars>>

DnNext == DnStartsWith \/ DnEqual \/ RdnEqual

-----------------------------------------------------------------------------
(* KeystoneLDAPHandler: search_s and the paged-search loop                 *)

MaxPageSize == 2
MaxPages == 3

PAGE_OID == "LDAP_CONTROL_PAGE_OID"

NoRet == [exc |-> "unset", val |-> <<>>]

NoControl == [size |-> 0, cookie |-> ""]

\* a request as the wrapped handler receives it
SearchExt(ctl) == [call |-> "search_ext", paged |-> TRUE,
                   size |-> ctl.size, cookie |-> ctl.cookie]
SearchS == [call |-> "search_s", paged |-> FALSE, size |-> 0, cookie |-> ""]

PageControl(c) == [controlType |-> PAGE_OID, cookie |-> c]
OtherControl   == [controlType |-> "other", cookie |-> ""]

\* the raw entries a server may return
EntryA == RawEntry(PyBytes(<<"c", "n", "=", "a">>),
                   [cn |-> <<PyBytes(<<"a">>)>>])
Entry7 == RawEntry(PyBytes(<<"c", "n", "=", "0", "7">>),
                   [cn |-> <<PyBytes(<<"0", "7">>)>>])
EntryRef == Referral([cn |-> <<>>])

\* rdata of one response
PageUniverse == { <<>>, <<EntryA>>, <<EntryRef, Entry7>> }

\* serverctrls of one response
ControlsUniverse == { <<>>, <<OtherControl>>, <<PageControl("")>>,
                      <<OtherControl, PageControl("c1")>>,
                      <<PageControl("c2")>> }

Responses == [rdata : PageUniverse, serverctrls : ControlsUniverse]

IsPageControl(c) == c.controlType = PAGE_OID

\* pctrls = [c for c in serverctrls if c.controlType == PAGE_OID]
pctrls(serverctrls) == SelectSeq(serverctrls, IsPageControl)

HandlerNew ==
    /\ hpc = "new"
    /\ page_size = 0
    /\ conn_page_size = 0
    /\ lc = NoControl
    /\ res = <<>>
    /\ reqs = <<>>
    /\ resps = <<>>
    /\ ret = NoRet
    /\ warnings = 0

\* get_connection: KeystoneLDAPHandler(conn=conn).connect(url, page_size=p):
\* connect hands page_size to the wrapped handler and keeps its own
Connect ==
    /\ hpc = "new"
    /\ \E p \in 0..MaxPageSize : conn_page_size' = p
    /\ hpc' = "idle"
    /\ UNCHANGED <<page_size, lc, res, reqs, resps, ret, warnings, dnVars, crudVars, pureVars>>

\* The owner of a handler assigns its page_size attribute before using it.
\* Nothing in core.py gives KeystoneLDAPHandler.page_size a value other than
\* 0, so this is the only way the paged path is ever taken.
AssignPageSize ==
    /\ hpc = "new"
    /\ \E p \in 1..MaxPageSize : page_size' = p
    /\ hpc' = "idle"
    /\ UNCHANGED <<conn_page_size, lc, res, reqs, resps, ret, warnings, dnVars, crudVars, pureVars>>

\* search_s with page_size = 0: one self.conn.search_s, then the conversion
SearchUnpaged ==
    /\ hpc = "idle"
    /\ page_size = 0
    /\ \E rdata \in PageUniverse :
          /\ reqs' = <<SearchS>>
          /\ resps' = <<[rdata |-> rdata, serverctrls |-> <<>>]>>
          /\ ret' = convert_ldap_result(rdata)
    /\ res' = <<>>
    /\ UNCHANGED <<hpc, page_size, conn_page_size, lc, warnings, dnVars, crudVars, pureVars>>

\* search_s with page_size # 0 enters _paged_search_s: the first search_ext
PagedStart ==
    /\ hpc = "idle"
    /\ page_size # 0
    /\ lc' = [size |-> page_size, cookie |-> ""]
    /\ res' = <<>>
    /\ reqs' = <<SearchExt(lc')>>
    /\ resps' = <<>>
    /\ ret' = NoRet
    /\ hpc' = "paging"
    /\ UNCHANGED <<page_size, conn_page_size, warnings, dnVars, crudVars, pureVars>>

\* a loop that keeps only the page it received last
ExtendOverwrites(acc, rdata) == rdata

\* res.extend(rdata)
Extend(acc, rdata) == acc \o rdata

\* a _disable_paging that leaves the page size as it was
DisablePagingNoop(size) == size

\* self.page_size after _disable_paging()
DisablePaging(size) == 0

\* a control for the next page that starts the search over
NextControlRestart(size, cookie) == [size |-> size, cookie |-> ""]

\* lc.controlValue = (self.page_size, cookie)
NextControl(size, cookie) == [size |-> size, cookie |-> cookie]

\* result3 returns a response with a paging control and a cookie: the next
\* page is requested with that cookie
PagedMore ==
    /\ hpc = "paging"
    /\ Len(resps) + 1 < MaxPages
    /\ \E r \in Responses :
          /\ pctrls(r.serverctrls) # <<>>
          /\ pctrls(r.serverctrls)[1].cookie # ""
          /\ res' = Extend(res, r.rdata)
          /\ resps' = Append(resps, r)
          /\ lc' = NextControl(page_size, pctrls(r.serverctrls)[1].cookie)
          /\ reqs' = Append(reqs, SearchExt(lc'))
    /\ UNCHANGED <<hpc, page_size, conn_page_size, ret, warnings, dnVars, crudVars, pureVars>>

\* result3 returns a response with a paging control and an empty cookie:
\* the loop ends and search_s converts and returns res
PagedDone ==
    /\ hpc = "paging"
    /\ \E r \in Responses :
          /\ pctrls(r.serverctrls) # <<>>
          /\ pctrls(r.serverctrls)[1].cookie = ""
          /\ res' = Extend(res, r.rdata)
          /\ resps' = Append(resps, r)
    /\ ret' = convert_ldap_result(res')
    /\ hpc' = "idle"
    /\ UNCHANGED <<page_size, conn_page_size, lc, reqs, warnings, dnVars, crudVars, pureVars>>

\* result3 returns a response without a paging control: one warning, paging
\* is disabled, the loop ends and search_s converts and returns res
PagedUnsupported ==
    /\ hpc = "paging"
    /\ \E r \in Responses :
          /\ pctrls(r.serverctrls) = <<>>
          /\ res' = Extend(res, r.rdata)
          /\ resps' = Append(resps, r)
    /\ warnings' = warnings + 1
    /\ page_size' = DisablePaging(page_size)
    /\ ret' = convert_ldap_result(res')
    /\ hpc' = "idle"
    /\ UNCHANGED <<conn_page_size, lc, reqs, dnVars, crudVars, pureVars>>

\* the errors the wrapped handler's search_ext and result3 may raise
ProtocolErrors == {"SERVER_DOWN", "TIMEOUT"}

\* a search_s that hands its caller what was accumulated so far
ReturnedPartial(e, acc) == convert_ldap_result(acc)

\* what the caller of search_s gets when e is raised inside
\* _paged_search_s: nothing catches it and the local list res is lost
Propagated(e, acc) == [exc |-> e, val |-> <<>>]

\* result3 raises: the exception leaves _paged_search_s and search_s
PagedResultFails ==
    /\ hpc = "paging"
    /\ \E e \in ProtocolErrors : ret' = Propagated(e, res)
    /\ hpc' = "idle"
    /\ UNCHANGED <<page_size, conn_page_size, lc, res, reqs, resps, warnings,
                   dnVars, crudVars, pureVars>>

\* result3 returns a response with a cookie and the search_ext for the next
\* page raises
PagedRequestFails ==
    /\ hpc = "paging"
    /\ Len(resps) + 1 < MaxPages
    /\ \E r \in Responses, e \in ProtocolErrors :
          /\ pctrls(r.serverctrls) # <<>>
          /\ pctrls(r.serverctrls)[1].cookie # ""
          /\ res' = Extend(res, r.rdata)
          /\ resps' = Append(resps, r)
          /\ lc' = NextControl(page_size, pctrls(r.serverctrls)[1].cookie)
          /\ reqs' = Append(reqs, SearchExt(lc'))
          /\ ret' = Propagated(e, res')
    /\ hpc' = "idle"
    /\ UNCHANGED <<page_size, conn_page_size, warnings, dnVars, crudVars,
                   pureVars>>

HandlerNext == \/ Connect
               \/ AssignPageSize
               \/ SearchUnpaged
               \/ PagedStart
               \/ PagedMore
               \/ PagedDone
               \/ PagedUnsupported
               \/ PagedResultFails
               \/ PagedRequestFails

-----------------------------------------------------------------------------
(* The directory behind the protocol client                                *)
(* An entry is [oc, name, desc, enabled, member]: its object class ("none" *)
(* where no entry exists), three single-valued attributes (None when the   *)
(* entry lacks the attribute) and the values of its member attribute.      *)
(* Entity entries live at the DN of their id, directly under the tree DN;  *)
(* the enabled-emulation group lives at GROUP, also under the tree DN.     *)
(* The first entity may have child entries of its own, at the DNs of       *)
(* KidOrder; kids is the set of those that exist.                          *)
(* Attribute values are names and booleans: values that py2ldap and        *)
(* ldap2py carry to the directory and back unchanged (text that is neither *)
(* digits nor TRUE/FALSE, and True/False through "TRUE"/"FALSE"), so the   *)
(* directory holds them as the engine passes them.                         *)

Absent == "<absent>"          \* a key a dict does not have

IdOrder == <<"u1", "u2">>
Ids == {IdOrder[i] : i \in 1..Len(IdOrder)}
NameValues == {"n1", "n2"}
DescValues == {"d1", "d2"}

TREE == "tree_dn"
GROUP == "enabled_emulation_dn"
DUMB == "cn=dumb,dc=nonexistent"

EntryDns == Ids \cup {GROUP}

\* The DN of the enabled-emulation group as the server returns it in a
\* search result, and the same DN as a configuration may spell it: the
\* server finds the one group entry, GROUP, under either.
GroupDn == <<<<Ava(<<"c", "n">>, <<"a", "b">>)>>>>
GroupDnConfigured == <<<<Ava(<<"C", "N">>, <<"A", "b">>)>>>>

\* the DN the server returns for an entry; two of these are the same
\* string exactly when they are the same value here
ServerDn(dn) == IF dn = GROUP THEN GroupDn
                ELSE <<<<Ava(<<"c", "n">>, <<dn>>)>>>>

\* the entry that may have children, and their DNs in the order a search
\* returns them
KidParent == IdOrder[1]
KidOrder == <<"k1,u1", "k2,u1", "k3,u1">>
KidDns == {KidOrder[i] : i \in 1..Len(KidOrder)}

\* the order a search returns entries in
DnOrder == IdOrder \o <<GROUP>>

NoEntry == [oc |-> "none", name |-> None, desc |-> None, enabled |-> None,
            member |-> {}]

EmptyDir(tree) == [tree |-> tree, ent |-> [dn \in EntryDns |-> NoEntry],
                   kids |-> {}]

Exists(d, dn) == IF dn = TREE THEN d.tree
                 ELSE IF dn \in KidDns THEN dn \in d.kids
                 ELSE dn \in EntryDns /\ d.ent[dn].oc # "none"

ChildrenOf(d, dn) == IF dn = KidParent THEN d.kids ELSE {}

\* add: [err, dir]
LdapAdd(d, dn, entry) ==
    IF Exists(d, dn) THEN [err |-> "ALREADY_EXISTS", dir |-> d]
    ELSE IF ~d.tree \/ dn \notin EntryDns
         THEN [err |-> "NO_SUCH_OBJECT", dir |-> d]
         ELSE [err |-> "none", dir |-> [d EXCEPT !.ent[dn] = entry]]

MOD_ADD == "MOD_ADD"
MOD_DELETE == "MOD_DELETE"
MOD_REPLACE == "MOD_REPLACE"

Mod(op, attr, val) == [op |-> op, attr |-> attr, val |-> val]

\* one modification applied to an entry: [err, e]
ApplyMod(e, m) ==
    IF m.attr = "member"
    THEN CASE m.op = MOD_ADD ->
                 IF m.val \in e.member
                 THEN [err |-> "TYPE_OR_VALUE_EXISTS", e |-> e]
                 ELSE [err |-> "none",
                       e |-> [e EXCEPT !.member = @ \cup {m.val}]]
           [] m.op = MOD_DELETE ->
                 IF m.val \notin e.member
                 THEN [err |-> "NO_SUCH_ATTRIBUTE", e |-> e]
                 ELSE [err |-> "none",
                       e |-> [e EXCEPT !.member = @ \ {m.val}]]
           [] OTHER -> [err |-> "none", e |-> [e EXCEPT !.member = {m.val}]]
    ELSE CASE m.op = MOD_ADD ->
                 IF e[m.attr] = m.val
                 THEN [err |-> "TYPE_OR_VALUE_EXISTS", e |-> e]
                 ELSE IF e[m.attr] # None
                      THEN [err |-> "CONSTRAINT_VIOLATION", e |-> e]
                      ELSE [err |-> "none", e |-> [e EXCEPT ![m.attr] = m.val]]
           [] m.op = MOD_DELETE ->
                 IF e[m.attr] = None \/ (m.val # None /\ e[m.attr] # m.val)
                 THEN [err |-> "NO_SUCH_ATTRIBUTE", e |-> e]
                 ELSE [err |-> "none", e |-> [e EXCEPT ![m.attr] = None]]
           [] OTHER -> [err |-> "none", e |-> [e EXCEPT ![m.attr] = m.val]]

\* a modification list applied in order; the first error abandons it
RECURSIVE ApplyMods(_, _)
ApplyMods(e, mods) ==
    IF mods = <<>> THEN [err |-> "none", e |-> e]
    ELSE LET one == ApplyMod(e, Head(mods))
         IN  IF one.err # "none" THEN one ELSE ApplyMods(one.e, Tail(mods))

\* modify: [err, dir]; all of the list is applied or none of it
LdapModify(d, dn, mods) ==
    IF ~Exists(d, dn) \/ dn = TREE THEN [err |-> "NO_SUCH_OBJECT", dir |-> d]
    ELSE LET done == ApplyMods(d.ent[dn], mods)
         IN  IF done.err # "none" THEN [err |-> done.err, dir |-> d]
             ELSE [err |-> "none", dir |-> [d EXCEPT !.ent[dn] = done.e]]

\* delete without a control: only a leaf is deleted
LdapDelete(d, dn) ==
    IF ~Exists(d, dn) \/ dn = TREE THEN [err |-> "NO_SUCH_OBJECT", dir |-> d]
    ELSE IF ChildrenOf(d, dn) # {}
         THEN [err |-> "NOT_ALLOWED_ON_NONLEAF", dir |-> d]
         ELSE IF dn \in KidDns
              THEN [err |-> "none", dir |-> [d EXCEPT !.kids = @ \ {dn}]]
              ELSE [err |-> "none", dir |-> [d EXCEPT !.ent[dn] = NoEntry]]

\* delete with the tree-delete control: the entry goes with its children
LdapDeleteTree(d, dn) ==
    IF ~Exists(d, dn) \/ dn = TREE THEN [err |-> "NO_SUCH_OBJECT", dir |-> d]
    ELSE IF dn \in KidDns
         THEN [err |-> "none", dir |-> [d EXCEPT !.kids = @ \ {dn}]]
         ELSE [err |-> "none",
               dir |-> [d EXCEPT !.ent[dn] = NoEntry,
                                 !.kids = @ \ ChildrenOf(d, dn)]]

\* A search filter: for the id attribute, the object class, name and desc
\* either "any" or the value the entry must have.
AnyFilter == [name |-> "any", desc |-> "any"]

Query(id, oc, extra) ==
    [id |-> id, oc |-> oc, name |-> extra.name, desc |-> extra.desc]

Matches(d, dn, q) ==
    /\ Exists(d, dn)
    /\ q.id \in {"any", dn}
    /\ q.oc \in {"any", d.ent[dn].oc}
    /\ q.name \in {"any", d.ent[dn].name}
    /\ q.desc \in {"any", d.ent[dn].desc}

Item(d, dn) == [dn |-> dn, attrs |-> d.ent[dn]]

NoItem == [dn |-> None, attrs |-> NoEntry]

\* search under the tree DN (one level or subtree): [err, items]
LdapSearchTree(d, q) ==
    IF ~d.tree THEN [err |-> "NO_SUCH_OBJECT", items |-> <<>>]
    ELSE LET hit(dn) == Matches(d, dn, q)
             dns == SelectSeq(DnOrder, hit)
         IN  [err |-> "none", items |-> [i \in 1..Len(dns) |-> Item(d, dns[i])]]

\* search one level under an entity for entries of the entity's object
\* class, asking for no attribute: [err, items]
LdapSearchChildren(d, dn) ==
    IF ~Exists(d, dn) \/ dn \notin Ids
    THEN [err |-> "NO_SUCH_OBJECT", items |-> <<>>]
    ELSE LET hit(kid) == kid \in ChildrenOf(d, dn)
             dns == SelectSeq(KidOrder, hit)
         IN  [err |-> "none",
              items |-> [i \in 1..Len(dns) |->
                            [dn |-> dns[i], attrs |-> NoEntry]]]

\* search with SCOPE_BASE and the filter (member=<member>): [err, items]
LdapSearchBase(d, dn, member) ==
    IF ~Exists(d, dn) \/ dn = TREE
    THEN [err |-> "NO_SUCH_OBJECT", items |-> <<>>]
    ELSE [err |-> "none",
          items |-> IF member \in d.ent[dn].member THEN <<Item(d, dn)>>
                    ELSE <<>>]

-----------------------------------------------------------------------------
(* A call in progress: the directory, the connections opened so far (for   *)
(* each the number of unbind_s calls it received), the protocol calls      *)
(* issued, the exception raised ("none" while none is), the value the last *)
(* step returned, and the entries other clients of the directory removed   *)
(* while the call was running.                                             *)

Run(d) == [dir |-> d, conns |-> <<>>, log |-> <<>>, exc |-> "none",
           ret |-> None, gone |-> {}]

Ok(r) == r.exc = "none"

Logged(r, call, dn, mods) ==
    [r EXCEPT !.log = Append(@, [call |-> call, dn |-> dn, mods |-> mods])]

Returns(r, v) == [r EXCEPT !.ret = v]

Raises(r, e) == [r EXCEPT !.exc = e]

\* an except clause that handles the exception
Caught(r) == [r EXCEPT !.exc = "none"]

\* KeystoneLDAPHandler.simple_bind_s
simple_bind_s(r) ==
    LET r1 == Logged(r, "simple_bind_s", conf.bind, <<>>)
    IN  IF conf.bind = "rejected" THEN Raises(r1, "INVALID_CREDENTIALS") ELSE r1

\* KeystoneLDAPHandler.unbind_s on connection c
unbind_s(r, c) == [r EXCEPT !.conns[c] = @ + 1]

\* KeystoneLDAPHandler.add_s
add_s(r, dn, entry) ==
    LET a == LdapAdd(r.dir, dn, entry)
    IN  [Logged(r, "add_s", dn, <<>>) EXCEPT !.exc = a.err, !.dir = a.dir]

\* KeystoneLDAPHandler.modify_s
modify_s(r, dn, mods) ==
    LET a == LdapModify(r.dir, dn, mods)
    IN  [Logged(r, "modify_s", dn, mods) EXCEPT !.exc = a.err, !.dir = a.dir]

\* KeystoneLDAPHandler.delete_s
delete_s(r, dn) ==
    LET a == LdapDelete(r.dir, dn)
    IN  [Logged(r, "delete_s", dn, <<>>) EXCEPT !.exc = a.err, !.dir = a.dir]

\* KeystoneLDAPHandler.delete_ext_s with the tree-delete control
delete_ext_s(r, dn) ==
    LET a == LdapDeleteTree(r.dir, dn)
    IN  [Logged(r, "delete_ext_s", dn, <<>>) EXCEPT !.exc = a.err, !.dir = a.dir]

\* KeystoneLDAPHandler.search_s under the tree DN; page_size is 0 on every
\* handler get_connection makes, so the search is never paged
search_s(r, q) ==
    LET a == LdapSearchTree(r.dir, q)
    IN  [Logged(r, "search_s", TREE, <<>>) EXCEPT !.exc = a.err, !.ret = a.items]

\* KeystoneLDAPHandler.search_s with SCOPE_ONELEVEL under search_base, for
\* (objectClass=<object_class>) and the attribute list ['1.1']
search_nodes_s(r, search_base) ==
    LET a == IF search_base = TREE
             THEN LdapSearchTree(r.dir, Query("any", conf.object_class, AnyFilter))
             ELSE LdapSearchChildren(r.dir, search_base)
    IN  [Logged(r, "search_s", search_base, <<>>) EXCEPT !.exc = a.err,
                                                        !.ret = a.items]

\* KeystoneLDAPHandler.search_s with SCOPE_BASE and (member=<member>)
search_base_s(r, dn, member) ==
    LET a == LdapSearchBase(r.dir, dn, member)
    IN  [Logged(r, "search_s", dn, <<>>) EXCEPT !.exc = a.err, !.ret = a.items]

-----------------------------------------------------------------------------
(* BaseLdap                                                                *)
(* A method is an operator from the run state it starts in to the one it   *)
(* ends in.  Then(r, K) is the rest K of a method after a call that left   *)
(* r: it runs only if the call returned.                                   *)

Then(r, K(_)) == IF Ok(r) THEN K(r) ELSE r

\* try: ... except <names>: H  else: E
Except(r, names, H(_), E(_)) ==
    IF r.exc \in names THEN H(Caught(r))
    ELSE IF Ok(r) THEN E(r)
    ELSE r

Keys == {"id", "name", "desc", "enabled"}

\* a dict without keys
NoKeys == [k \in Keys |-> Absent]

\* dict.get(k)
DictGet(obj, k) == IF obj[k] = Absent THEN None ELSE obj[k]

\* the connection get_connection returns is the last one of r.conns; a bind
\* that raises leaves it behind, opened
get_connection(r) ==
    IF conf.bind # "anonymous"
    THEN simple_bind_s([r EXCEPT !.conns = Append(@, 0)])
    ELSE [r EXCEPT !.conns = Append(@, 0)]

Conn(r) == Len(r.conns)

_id_to_dn_string(object_id) == object_id

\* a or b, for filters
FilterOr(a, b) == IF a # AnyFilter THEN a ELSE b

_id_to_dn(r, object_id) ==
    IF conf.scope = "one" THEN Returns(r, _id_to_dn_string(object_id))
    ELSE Then(get_connection(r), LAMBDA r1 :
         Then(unbind_s(search_s(r1, Query(object_id, conf.object_class, AnyFilter)),
                       Conn(r1)), LAMBDA r2 :
         IF Len(r2.ret) > 0 THEN Returns(r2, r2.ret[1].dn)
         ELSE Returns(r2, _id_to_dn_string(object_id))))

_dn_to_id(dn) == dn

\* the model object built from one search result item
_ldap_res_to_model(item) ==
    [k \in Keys |->
        IF k = "id" THEN _dn_to_id(item.dn)
        ELSE IF k \in conf.attribute_ignore \/ item.attrs[k] = None
             THEN Absent
             ELSE item.attrs[k]]

_ldap_get(r, object_id, ldap_filter) ==
    Then(get_connection(r), LAMBDA r1 :
    Except(unbind_s(search_s(r1, Query(object_id, conf.object_class,
                                       FilterOr(ldap_filter,
                                                conf.ldap_filter))),
                    Conn(r1)),
           {"NO_SUCH_OBJECT"},
           LAMBDA r2 : Returns(r2, NoItem),
           LAMBDA r2 : Returns(r2, IF Len(r2.ret) > 0 THEN r2.ret[1]
                                   ELSE NoItem)))

_ldap_get_all(r, ldap_filter) ==
    Then(get_connection(r), LAMBDA r1 :
    Except(unbind_s(search_s(r1, Query("any", conf.object_class,
                                       FilterOr(ldap_filter,
                                                conf.ldap_filter))),
                    Conn(r1)),
           {"NO_SUCH_OBJECT"},
           LAMBDA r2 : Returns(r2, <<>>),
           LAMBDA r2 : r2))

_not_found == "NotFound"

\* a get that marshals whatever _ldap_get returned
Base_get_unchecked(r, object_id, ldap_filter) ==
    Then(_ldap_get(r, object_id, ldap_filter), LAMBDA r1 :
    Returns(r1, _ldap_res_to_model(r1.ret)))

Base_get(r, object_id, ldap_filter) ==
    Then(_ldap_get(r, object_id, ldap_filter), LAMBDA r1 :
    IF r1.ret = NoItem THEN Raises(r1, _not_found)
    ELSE Returns(r1, _ldap_res_to_model(r1.ret)))

\* [self._ldap_res_to_model(x) for x in items]
Models(items) == [i \in 1..Len(items) |-> _ldap_res_to_model(items[i])]

Base_get_all(r, ldap_filter) ==
    Then(_ldap_get_all(r, ldap_filter), LAMBDA r1 :
    Returns(r1, Models(r1.ret)))

-----------------------------------------------------------------------------
(* EnabledEmuMixIn: the reads                                              *)

\* True and False as dict values
PyTrue == "True"
PyFalse == "False"

PyBoolOf(b) == IF b THEN PyTrue ELSE PyFalse

EmulationActive ==
    "enabled" \notin conf.attribute_ignore /\ conf.enabled_emulation

_get_enabled(r, object_id) ==
    Then(get_connection(r), LAMBDA r1 :
    Then(_id_to_dn(r1, object_id), LAMBDA r2 :
    Except(unbind_s(search_base_s(r2, GROUP, r2.ret), Conn(r1)),
           {"NO_SUCH_OBJECT"},
           LAMBDA r3 : Returns(r3, FALSE),
           LAMBDA r3 : Returns(r3, Len(r3.ret) > 0))))

Emu_get(r, object_id, ldap_filter) ==
    Then(Base_get(r, object_id, ldap_filter), LAMBDA r1 :
    IF ~EmulationActive THEN r1
    ELSE Then(_get_enabled(r1, object_id), LAMBDA r2 :
         Returns(r2, [r1.ret EXCEPT !["enabled"] = PyBoolOf(r2.ret)])))

\* for tenant_ref in tenant_list: tenant_ref['enabled'] = _get_enabled(...)
RECURSIVE AnnotateEnabled(_, _, _)
AnnotateEnabled(r, todo, done) ==
    IF todo = <<>> THEN Returns(r, done)
    ELSE Then(_get_enabled(r, Head(todo)["id"]), LAMBDA r1 :
         AnnotateEnabled(r1, Tail(todo),
             Append(done,
                    [Head(todo) EXCEPT !["enabled"] = PyBoolOf(r1.ret)])))

\* x[0] != self.enabled_emulation_dn
NotTheGroup(item) == ServerDn(item.dn) # conf.enabled_emulation_dn

Emu_get_all(r, ldap_filter) ==
    IF EmulationActive
    THEN Then(_ldap_get_all(r, ldap_filter), LAMBDA r1 :
         AnnotateEnabled(r1, Models(SelectSeq(r1.ret, NotTheGroup)), <<>>))
    ELSE Base_get_all(r, ldap_filter)

\* self.get and self.get_all, by the class of the object
Self_get(r, object_id, ldap_filter) ==
    IF conf.cls = "EnabledEmuMixIn" THEN Emu_get(r, object_id, ldap_filter)
    ELSE Base_get(r, object_id, ldap_filter)

Self_get_all(r, ldap_filter) ==
    IF conf.cls = "EnabledEmuMixIn" THEN Emu_get_all(r, ldap_filter)
    ELSE Base_get_all(r, ldap_filter)

-----------------------------------------------------------------------------
(* BaseLdap: get_by_name, create, update, delete                           *)

\* the ldap_filter argument is not used
get_by_name(r, name, ldap_filter) ==
    Then(Self_get_all(r, [name |-> name, desc |-> "any"]), LAMBDA r1 :
    IF Len(r1.ret) > 0 THEN Returns(r1, r1.ret[1])
    ELSE Raises(r1, _not_found))

\* the probe without its else clause: a hit raises nothing
ProbeSilent(r) ==
    IF Ok(r) \/ r.exc = _not_found THEN Caught(r) ELSE r

\* try: <probe>  except NotFound: pass  else: raise Conflict
ProbeUnique(r) ==
    IF Ok(r) THEN Raises(r, "Conflict")
    ELSE IF r.exc = _not_found THEN Caught(r)
    ELSE r

affirm_unique(r, values) ==
    Then(IF DictGet(values, "name") # None
         THEN ProbeUnique(get_by_name(r, values["name"], AnyFilter))
         ELSE r, LAMBDA r1 :
    IF DictGet(values, "id") # None
    THEN ProbeUnique(Self_get(r1, values["id"], AnyFilter))
    ELSE r1)

\* the attributes create sends for values
CreateAttr(values, k) ==
    IF k \in conf.attribute_ignore \/ DictGet(values, k) = None THEN None
    ELSE values[k]

CreateEntry(values) ==
    [oc |-> conf.object_class,
     name |-> CreateAttr(values, "name"),
     desc |-> CreateAttr(values, "desc"),
     enabled |-> CreateAttr(values, "enabled"),
     member |-> IF conf.object_class = "groupOfNames" /\ conf.use_dumb_member
                THEN {DUMB} ELSE {}]

Base_create(r, values) ==
    Then(affirm_unique(r, values), LAMBDA r1 :
    Then(get_connection(r1), LAMBDA r2 :
    Then(unbind_s(Then(_id_to_dn(r2, values["id"]), LAMBDA r3 :
                       add_s(r3, r3.ret, CreateEntry(values))),
                  Conn(r2)), LAMBDA r4 :
    Returns(r4, values))))

\* the order update visits the keys of values in
KeyOrder == <<"id", "name", "desc", "enabled">>

HasKey(obj, k) == obj[k] # Absent

\* the skip without its comparison to the snapshot
UpdateSkipsIdOrIgnored(values, old_obj, k) ==
    k = "id" \/ k \in conf.attribute_ignore

\* the key is skipped: it is the id, ignored or unchanged
UpdateSkips(values, old_obj, k) ==
    \/ k = "id"
    \/ k \in conf.attribute_ignore
    \/ (HasKey(old_obj, k) /\ old_obj[k] = values[k])

\* a loop that writes every changed key as a replacement
UpdateModsReplacing(values, old_obj, k) ==
    IF ~HasKey(values, k) \/ UpdateSkips(values, old_obj, k) THEN <<>>
    ELSE <<Mod(MOD_REPLACE, k, values[k])>>

\* the modifications update appends for key k
UpdateMods(values, old_obj, k) ==
    IF ~HasKey(values, k) \/ UpdateSkips(values, old_obj, k) THEN <<>>
    ELSE IF values[k] = None
         THEN IF DictGet(old_obj, k) # None
              THEN <<Mod(MOD_DELETE, k, None)>> ELSE <<>>
         ELSE IF DictGet(old_obj, k) = None
              THEN <<Mod(MOD_ADD, k, values[k])>>
              ELSE <<Mod(MOD_REPLACE, k, values[k])>>

RECURSIVE UpdateModlist(_, _, _)
UpdateModlist(values, old_obj, keys) ==
    IF keys = <<>> THEN <<>>
    ELSE UpdateMods(values, old_obj, Head(keys))
         \o UpdateModlist(values, old_obj, Tail(keys))

\* the loop without its immutable check
UpdateHitsNothing(values, old_obj) == FALSE

\* the loop reaches the immutable check for some key
UpdateHitsImmutable(values, old_obj) ==
    \E k \in Keys : /\ HasKey(values, k)
                    /\ ~UpdateSkips(values, old_obj, k)
                    /\ k \in conf.immutable_attrs

\* old_obj is None
NoneObj == [k \in Keys |-> None]

\* a handler that lets ldap.NO_SUCH_OBJECT through
NotFoundLeftRaw(r) == r

\* except ldap.NO_SUCH_OBJECT: raise self._not_found(object_id)
NotFoundFor(r) ==
    IF r.exc = "NO_SUCH_OBJECT" THEN Raises(r, _not_found) ELSE r

\* a write that sends the list even when it is empty
UpdateWriteAlways(r, object_id, modlist) ==
    Then(get_connection(r), LAMBDA r1 :
    NotFoundFor(unbind_s(Then(_id_to_dn(r1, object_id), LAMBDA r2 :
                              modify_s(r2, r2.ret, modlist)),
                         Conn(r1))))

\* if modlist: ... conn.modify_s(self._id_to_dn(object_id), modlist)
UpdateWrite(r, object_id, modlist) ==
    IF modlist = <<>> THEN r
    ELSE Then(get_connection(r), LAMBDA r1 :
         NotFoundFor(unbind_s(Then(_id_to_dn(r1, object_id), LAMBDA r2 :
                                   modify_s(r2, r2.ret, modlist)),
                              Conn(r1))))

Base_update(r, object_id, values, old_obj) ==
    Then(IF old_obj = NoneObj THEN Self_get(r, object_id, AnyFilter)
         ELSE Returns(r, old_obj), LAMBDA r1 :
    IF UpdateHitsImmutable(values, r1.ret) THEN Raises(r1, "ValidationError")
    ELSE Then(UpdateWrite(r1, object_id,
                          UpdateModlist(values, r1.ret, KeyOrder)),
              LAMBDA r2 : Self_get(r2, object_id, AnyFilter)))

Base_delete(r, object_id) ==
    Then(get_connection(r), LAMBDA r1 :
    Then(NotFoundFor(unbind_s(Then(_id_to_dn(r1, object_id), LAMBDA r2 :
                                   delete_s(r2, r2.ret)),
                              Conn(r1))), LAMBDA r3 :
    Returns(r3, None)))

deleteTree(r, object_id) ==
    Then(get_connection(r), LAMBDA r1 :
    Then(NotFoundFor(unbind_s(Then(_id_to_dn(r1, object_id), LAMBDA r2 :
                                   delete_ext_s(r2, r2.ret)),
                              Conn(r1))), LAMBDA r3 :
    Returns(r3, None)))

\* except ldap.TYPE_OR_VALUE_EXISTS: raise exception.Conflict(...)
ConflictFor(r) ==
    IF r.exc = "TYPE_OR_VALUE_EXISTS" THEN Raises(r, "Conflict") ELSE r

add_member(r, member_dn, member_list_dn) ==
    Then(get_connection(r), LAMBDA r1 :
    Then(NotFoundFor(ConflictFor(unbind_s(
             modify_s(r1, member_list_dn,
                      <<Mod(MOD_ADD, "member", member_dn)>>),
             Conn(r1)))), LAMBDA r2 :
    Returns(r2, None)))

remove_member(r, member_dn, member_list_dn) ==
    Then(get_connection(r), LAMBDA r1 :
    Then(NotFoundFor(unbind_s(
             modify_s(r1, member_list_dn,
                      <<Mod(MOD_DELETE, "member", member_dn)>>),
             Conn(r1))), LAMBDA r2 :
    Returns(r2, None)))

\* the entries another client may remove during a call: the leaves
Vanishable == KidDns \cup {IdOrder[Len(IdOrder)]}

\* another client removes those of dns that exist
Vanish(r, dns) ==
    [r EXCEPT !.dir = [@ EXCEPT !.kids = @ \ dns,
                                !.ent = [dn \in EntryDns |->
                                            IF dn \in dns THEN NoEntry
                                            ELSE r.dir.ent[dn]]],
              !.gone = {dn \in dns : Exists(r.dir, dn)}]

\* the DNs of the entries a search returned
DnsOf(items) == {items[i].dn : i \in 1..Len(items)}

\* a loop that gives up at the first node that is gone
RECURSIVE DeleteNodesUntilGone(_, _)
DeleteNodesUntilGone(r, nodes) ==
    IF nodes = <<>> THEN r
    ELSE Except(delete_s(r, Head(nodes).dn), {"NO_SUCH_OBJECT"},
                LAMBDA r1 : r1,
                LAMBDA r1 : DeleteNodesUntilGone(r1, Tail(nodes)))

\* a loop that deletes no node
DeleteNodesSkipped(r, nodes) == r

\* for node_dn, _t in nodes: conn.delete_s(node_dn), a node that is gone
\* being noted and passed over
RECURSIVE DeleteNodes(_, _)
DeleteNodes(r, nodes) ==
    IF nodes = <<>> THEN r
    ELSE Except(delete_s(r, Head(nodes).dn), {"NO_SUCH_OBJECT"},
                LAMBDA r1 : DeleteNodes(r1, Tail(nodes)),
                LAMBDA r1 : DeleteNodes(r1, Tail(nodes)))

\* _delete_tree_nodes(search_base, SCOPE_ONELEVEL); between the search and
\* the loop another client removes those of vanished that were enumerated
_delete_tree_nodes(r, search_base, vanished) ==
    Then(get_connection(r), LAMBDA r1 :
    Then(NotFoundFor(unbind_s(
             Then(search_nodes_s(r1, search_base), LAMBDA r2 :
                  DeleteNodes(Vanish(r2, vanished \cap DnsOf(r2.ret)),
                              r2.ret)),
             Conn(r1))), LAMBDA r3 :
    Returns(r3, None)))

\* a check that allows everything
check_allow_all(r, action) == Returns(r, None)

\* check_allow_create, check_allow_update, check_allow_delete
check_allow(r, action) ==
    IF ~conf.allow[action] THEN Raises(r, "ForbiddenAction")
    ELSE Returns(r, None)

-----------------------------------------------------------------------------
(* EnabledEmuMixIn: the writes                                             *)

\* an enable that writes nothing
_add_enabled_nothing(r, object_id) == Returns(r, None)

GroupEntry(members) ==
    [oc |-> "groupOfNames", name |-> None, desc |-> None, enabled |-> None,
     member |-> members]

\* a group created without the dumb member
DumbMembersNone == {}

DumbMembers == IF conf.use_dumb_member THEN {DUMB} ELSE {}

_add_enabled(r, object_id) ==
    Then(_get_enabled(r, object_id), LAMBDA r0 :
    IF r0.ret THEN Returns(r0, None)
    ELSE Then(get_connection(r0), LAMBDA r1 :
         Then(_id_to_dn(r1, object_id), LAMBDA r2 :
         Then(unbind_s(
                Except(modify_s(r2, GROUP, <<Mod(MOD_ADD, "member", r2.ret)>>),
                       {"NO_SUCH_OBJECT"},
                       LAMBDA r3 :
                           Then(_id_to_dn(r3, object_id), LAMBDA r4 :
                           add_s(r4, GROUP,
                                 GroupEntry({r4.ret} \cup DumbMembers))),
                       LAMBDA r3 : r3),
                Conn(r1)), LAMBDA r5 :
         Returns(r5, None)))))

\* a removal that writes nothing
_remove_enabled_nothing(r, object_id) == Returns(r, None)

_remove_enabled(r, object_id) ==
    Then(get_connection(r), LAMBDA r1 :
    Then(_id_to_dn(r1, object_id), LAMBDA r2 :
    Except(unbind_s(modify_s(r2, GROUP, <<Mod(MOD_DELETE, "member", r2.ret)>>),
                    Conn(r1)),
           {"NO_SUCH_OBJECT", "NO_SUCH_ATTRIBUTE"},
           LAMBDA r3 : Returns(r3, None),
           LAMBDA r3 : Returns(r3, None))))

\* dict.pop(k, default)
Popped(values, k) == [values EXCEPT ![k] = Absent]
PopValue(values, k, default) == IF HasKey(values, k) THEN values[k] ELSE default

Truthy(v) == v = PyTrue

Emu_create(r, values) ==
    IF conf.enabled_emulation
    THEN Then(Base_create(r, Popped(values, "enabled")), LAMBDA r1 :
         IF "enabled" \in conf.attribute_ignore THEN r1
         ELSE Then(IF Truthy(PopValue(values, "enabled", PyTrue))
                   THEN _add_enabled(r1, r1.ret["id"]) ELSE r1, LAMBDA r2 :
              Returns(r2, [r1.ret EXCEPT !["enabled"] =
                              PopValue(values, "enabled", PyTrue)])))
    ELSE Base_create(r, values)

\* an update that settles the membership before it delegates
Emu_update_flag_first(r, object_id, values, old_obj) ==
    IF EmulationActive
    THEN Then(IF PopValue(values, "enabled", None) = None THEN r
              ELSE IF Truthy(values["enabled"])
                   THEN _add_enabled(r, object_id)
                   ELSE _remove_enabled(r, object_id), LAMBDA r1 :
         Then(Base_update(r1, object_id, Popped(values, "enabled"), old_obj),
              LAMBDA r2 :
         IF PopValue(values, "enabled", None) = None THEN r2
         ELSE Returns(r2, [r2.ret EXCEPT !["enabled"] = values["enabled"]])))
    ELSE Base_update(r, object_id, values, old_obj)

Emu_update(r, object_id, values, old_obj) ==
    IF EmulationActive
    THEN Then(Base_update(r, object_id, Popped(values, "enabled"), old_obj),
              LAMBDA r1 :
         IF PopValue(values, "enabled", None) = None THEN r1
         ELSE Then(IF Truthy(values["enabled"])
                   THEN _add_enabled(r1, object_id)
                   ELSE _remove_enabled(r1, object_id), LAMBDA r2 :
              Returns(r2, [r1.ret EXCEPT !["enabled"] = values["enabled"]])))
    ELSE Base_update(r, object_id, values, old_obj)

Emu_delete(r, object_id) ==
    Then(IF conf.enabled_emulation THEN _remove_enabled(r, object_id) ELSE r,
         LAMBDA r1 : Base_delete(r1, object_id))

\* create, update and delete, by the class of the object
Self_create(r, values) ==
    IF conf.cls = "EnabledEmuMixIn" THEN Emu_create(r, values)
    ELSE Base_create(r, values)

Self_update(r, object_id, values, old_obj) ==
    IF conf.cls = "EnabledEmuMixIn"
    THEN Emu_update(r, object_id, values, old_obj)
    ELSE Base_update(r, object_id, values, old_obj)

Self_delete(r, object_id) ==
    IF conf.cls = "EnabledEmuMixIn" THEN Emu_delete(r, object_id)
    ELSE Base_delete(r, object_id)

-----------------------------------------------------------------------------
(* The engine object and its callers                                       *)
(* conf is the configuration the engine object was constructed with; dir   *)
(* is the directory; last is Idle between calls and, after a call, holds   *)
(* the call, the directory it started from and what it did.                *)

\* the configuration the others vary: the enabled-emulation overlay on a
\* one-level tree with an anonymous bind
DefaultConf ==
    [cls |-> "EnabledEmuMixIn",
     enabled_emulation |-> TRUE,
     attribute_ignore |-> {},
     immutable_attrs |-> {"name"},
     scope |-> "one",
     bind |-> "anonymous",
     ldap_filter |-> AnyFilter,
     allow |-> [create |-> TRUE, update |-> TRUE, delete |-> TRUE],
     use_dumb_member |-> FALSE,
     object_class |-> "entity",
     enabled_emulation_dn |-> GroupDn]

Configs ==
    {DefaultConf,
     [DefaultConf EXCEPT !.enabled_emulation = FALSE,
                         !.immutable_attrs = {"enabled"},
                         !.allow = [create |-> FALSE, update |-> TRUE,
                                    delete |-> FALSE]],
     [DefaultConf EXCEPT !.cls = "BaseLdap",
                         !.attribute_ignore = {"enabled"},
                         !.bind = "accepted",
                         !.allow = [create |-> TRUE, update |-> FALSE,
                                    delete |-> TRUE]],
     [DefaultConf EXCEPT !.attribute_ignore = {"enabled"}],
     [DefaultConf EXCEPT !.attribute_ignore = {"desc"},
                         !.immutable_attrs = {"id", "desc", "enabled"},
                         !.scope = "sub",
                         !.use_dumb_member = TRUE],
     [DefaultConf EXCEPT !.bind = "rejected"],
     [DefaultConf EXCEPT !.ldap_filter = [name |-> "any", desc |-> "d1"]]}

Idle ==
    [op |-> "idle", id |-> None, values |-> NoKeys, old_obj |-> NoneObj,
     pre |-> EmptyDir(FALSE), exc |-> "none", ret |-> None, log |-> <<>>,
     conns |-> <<>>, gone |-> {}]

\* the call has run from the directory dir to the run state r
Called(op, id, values, old_obj, r) ==
    \E out \in {r} :
        /\ last' = [op |-> op, id |-> id, values |-> values,
                    old_obj |-> old_obj, pre |-> dir, exc |-> out.exc,
                    ret |-> out.ret, log |-> out.log, conns |-> out.conns,
                    gone |-> out.gone]
        /\ dir' = out.dir
        /\ UNCHANGED <<conf, dnVars, handlerVars, pureVars>>

\* the values maps create is called with
CreateValues ==
    {[id |-> i, name |-> n, desc |-> d, enabled |-> e] :
        i \in Ids, n \in NameValues, d \in DescValues \cup {Absent},
        e \in {Absent, PyTrue, PyFalse}}

\* the values maps update is called with; an id in them is the last id
UpdateValues ==
    {[id |-> i, name |-> n, desc |-> d, enabled |-> e] :
        i \in {Absent, IdOrder[Len(IdOrder)]}, n \in NameValues \cup {Absent},
        d \in DescValues \cup {Absent, None}, e \in {Absent, PyTrue, PyFalse}}

Create ==
    /\ last.op = "idle"
    /\ \E values \in CreateValues :
          Called("create", values["id"], values, NoneObj,
                 Self_create(Run(dir), values))

Get ==
    /\ last.op = "idle"
    /\ \E object_id \in Ids :
          Called("get", object_id, NoKeys, NoneObj,
                 Self_get(Run(dir), object_id, AnyFilter))

GetByName ==
    /\ last.op = "idle"
    /\ \E name \in NameValues :
          Called("get_by_name", None, [NoKeys EXCEPT !["name"] = name],
                 NoneObj, get_by_name(Run(dir), name, AnyFilter))

GetAll ==
    /\ last.op = "idle"
    /\ Called("get_all", None, NoKeys, NoneObj,
              Self_get_all(Run(dir), AnyFilter))

\* update without a snapshot
Update ==
    /\ last.op = "idle"
    /\ \E object_id \in Ids, values \in UpdateValues :
          Called("update", object_id, values, NoneObj,
                 Self_update(Run(dir), object_id, values, NoneObj))

\* update with the snapshot the caller has just fetched with get
UpdateFrom ==
    /\ last.op = "idle"
    /\ \E object_id \in Ids :
          \E got \in {Self_get(Run(dir), object_id, AnyFilter)} :
              /\ Ok(got)
              /\ \E values \in UpdateValues :
                    Called("update", object_id, values, got.ret,
                           Self_update(Run(dir), object_id, values, got.ret))

Delete ==
    /\ last.op = "idle"
    /\ \E object_id \in Ids :
          Called("delete", object_id, NoKeys, NoneObj,
                 Self_delete(Run(dir), object_id))

DeleteTree ==
    /\ last.op = "idle"
    /\ \E object_id \in Ids :
          Called("deleteTree", object_id, NoKeys, NoneObj,
                 deleteTree(Run(dir), object_id))

\* add_member and remove_member on the enabled-emulation group's DN
AddMember ==
    /\ last.op = "idle"
    /\ \E member_dn \in Ids :
          Called("add_member", member_dn, NoKeys, NoneObj,
                 add_member(Run(dir), member_dn, GROUP))

RemoveMember ==
    /\ last.op = "idle"
    /\ \E member_dn \in Ids :
          Called("remove_member", member_dn, NoKeys, NoneObj,
                 remove_member(Run(dir), member_dn, GROUP))

\* _delete_tree_nodes on the tree DN or on an entity's DN
DeleteTreeNodes ==
    /\ last.op = "idle"
    /\ \E search_base \in {TREE} \cup Ids, vanished \in SUBSET Vanishable :
          Called("_delete_tree_nodes", search_base, NoKeys, NoneObj,
                 _delete_tree_nodes(Run(dir), search_base, vanished))

CheckAllow ==
    /\ last.op = "idle"
    /\ \E action \in {"create", "update", "delete"} :
          Called("check_allow", None, [NoKeys EXCEPT !["name"] = action],
                 NoneObj, check_allow(Run(dir), action))

\* the caller has the outcome; the engine object is idle again
Return ==
    /\ last.op # "idle"
    /\ last' = Idle
    /\ UNCHANGED <<conf, dir, dnVars, handlerVars, pureVars>>

CrudNext ==
    \/ Create
    \/ Get
    \/ GetByName
    \/ GetAll
    \/ Update
    \/ UpdateFrom
    \/ Delete
    \/ DeleteTree
    \/ AddMember
    \/ RemoveMember
    \/ DeleteTreeNodes
    \/ CheckAllow
    \/ Return

\* no engine object
CrudUnused ==
    /\ conf = DefaultConf
    /\ dir = EmptyDir(TRUE)
    /\ last = Idle

\* an engine object of one of the configurations, on a directory that has
\* the tree entry or lacks it, and no entity yet
CrudNew ==
    /\ conf \in Configs
    /\ dir \in {EmptyDir(TRUE), EmptyDir(FALSE)}
    /\ last = Idle

\* the overlay with emulation on for entities of the object class the
\* group entry has too, the group DN configured as the server spells it or
\* otherwise
EmuListConfigs ==
    {[DefaultConf EXCEPT !.object_class = "groupOfNames",
                         !.enabled_emulation_dn = g,
                         !.use_dumb_member = u] :
        g \in {GroupDn, GroupDnConfigured}, u \in BOOLEAN}

EmuListNew ==
    /\ conf \in EmuListConfigs
    /\ dir = EmptyDir(TRUE)
    /\ last = Idle

EmuListNext == Create \/ GetAll \/ Delete \/ Return

\* an entity entry as another engine object has left it in the directory
OtherEntry(name) == [CreateEntry([NoKeys EXCEPT !["name"] = name])
                        EXCEPT !.enabled = None]

\* an engine object on a directory where the first entity has any of its
\* child entries and the second entity exists or not
TreeNew ==
    /\ conf \in Configs
    /\ dir \in {[EmptyDir(TRUE) EXCEPT !.ent[KidParent] = OtherEntry("n1"),
                                       !.ent[IdOrder[2]] = e,
                                       !.kids = ks] :
                    e \in {NoEntry, OtherEntry("n2")}, ks \in SUBSET KidDns}
    /\ last = Idle

TreeNext == DeleteTree \/ DeleteTreeNodes \/ Return

\* the first entity as the overlay created it, enabled, with one entry
\* below it that another engine object has put there
WithChild ==
    [EmptyDir(TRUE) EXCEPT !["ent"][KidParent] = OtherEntry("n1"),
                           !["ent"][GROUP] =
                               GroupEntry({KidParent} \cup DumbMembers),
                           !["kids"] = {KidOrder[1]}]

\* an overlay object with emulation on, on an empty directory or on one
\* where an enabled entity has a child
EnabledNew ==
    /\ conf \in {c \in Configs : /\ c.cls = "EnabledEmuMixIn"
                                 /\ c.enabled_emulation
                                 /\ "enabled" \notin c.attribute_ignore}
    /\ dir \in {EmptyDir(TRUE), WithChild}
    /\ last = Idle

EnabledNext == Create \/ Get \/ Update \/ UpdateFrom \/ Delete \/ Return

-----------------------------------------------------------------------------
(* KeystoneLDAPHandler.add_s and modify_s with the log record they write  *)
(*                                                                         *)
(* The values of one attribute are [none, items]: none is TRUE for None,   *)
(* items holds the elements of a list, or the one value that stands alone. *)
(* A run is [exc, events]: the log records and the calls forwarded to the  *)
(* wrapped connection, in the order they happen.                           *)

NoValues == [none |-> TRUE, items |-> <<>>]
Values(items) == [none |-> FALSE, items |-> items]

safe_iter(attrs) == IF attrs.none THEN <<>> ELSE attrs.items

ModItem(op, kind, values) == [op |-> op, kind |-> kind, values |-> values]

\* [py2ldap(x) for x in safe_iter(values)]
Py2LdapList(values) ==
    Values([i \in 1..Len(safe_iter(values)) |-> py2ldap(safe_iter(values)[i])])

\* [utf8_encode(x) for x in safe_iter(values)]
Utf8List(values) ==
    Values([i \in 1..Len(safe_iter(values)) |->
               utf8_encode(safe_iter(values)[i])])

AnyRaised(items) ==
    \E i \in 1..Len(items) :
        \E j \in 1..Len(items[i].values.items) :
            Raised(items[i].values.items[j])

Masked == Values(<<PyText(<<"*", "*", "*", "*">>)>>)

\* values if kind != 'userPassword' else ['****']
LoggingValues(kind, values) == IF kind # "userPassword" THEN values ELSE Masked

LoggingAttrs(ldap_attrs) ==
    [i \in 1..Len(ldap_attrs) |->
        [ldap_attrs[i] EXCEPT
            !.values = LoggingValues(ldap_attrs[i].kind, @)]]

LogEvent(call, dn, items) ==
    [what |-> "log", call |-> call, dn |-> PyText(dn), items |-> items]

ForwardEvent(call, dn, items) ==
    [what |-> "forward", call |-> call, dn |-> dn, items |-> items]

EventRun(exc, events) == [exc |-> exc, events |-> events]

\* the part add_s and modify_s share once the values are converted: the
\* log record, then the UTF-8 encoding, then the call on self.conn
LogThenForward(call, dn, ldap_attrs, utf8_attrs) ==
    IF AnyRaised(ldap_attrs)
    THEN EventRun("UnicodeDecodeError", <<>>)
    ELSE EventRun("none",
                  <<LogEvent(call, dn, LoggingAttrs(ldap_attrs)),
                    ForwardEvent(call, utf8_encode(PyText(dn)), utf8_attrs)>>)

\* KeystoneLDAPHandler.add_s(dn, modlist): the op of every item is None
Handler_add_s(dn, modlist) ==
    LogThenForward("add_s", dn,
        [i \in 1..Len(modlist) |->
            ModItem(None, modlist[i].kind, Py2LdapList(modlist[i].values))],
        [i \in 1..Len(modlist) |->
            ModItem(None, modlist[i].kind,
                    Utf8List(Py2LdapList(modlist[i].values)))])

\* KeystoneLDAPHandler.modify_s(dn, modlist): None values stay None
Handler_modify_s(dn, modlist) ==
    LogThenForward("modify_s", dn,
        [i \in 1..Len(modlist) |->
            ModItem(modlist[i].op, modlist[i].kind,
                    IF modlist[i].values.none THEN NoValues
                    ELSE Py2LdapList(modlist[i].values))],
        [i \in 1..Len(modlist) |->
            ModItem(modlist[i].op, modlist[i].kind,
                    IF modlist[i].values.none THEN NoValues
                    ELSE Utf8List(Py2LdapList(modlist[i].values)))])

\* the spellings of the password attribute's name, which LDAP does not
\* tell apart
PasswordKinds == {"userPassword", "userpassword", "USERPASSWORD"}

\* what a caller may hand over as the values of the password attribute
SecretValues ==
    {NoValues,
     Values(<<PyText(<<"s", "1">>)>>),
     Values(<<PyText(<<"s", "2">>)>>),
     Values(<<PyText(<<"s", "1">>), PyText(<<"U+E9">>)>>),
     Values(<<PyInt(7)>>),
     Values(<<PyBytes(<<"xC3">>)>>)}

LogDn == <<"c", "n", "=", "u", "1">>

\* the modlist of one call: the entity's name, then the password attribute
LogModlist(op, kind, values) ==
    <<ModItem(op, "cn", Values(<<PyText(<<"n", "1">>)>>)),
      ModItem(op, kind, values)>>

NoEvents == [op |-> "none", a |-> EventRun("none", <<>>),
             b |-> EventRun("none", <<>>)]

LogInput ==
    /\ logIn \in [call : {"add_s"}, op : {None}, kind : PasswordKinds,
                  a : SecretValues, b : SecretValues]
              \cup [call : {"modify_s"},
                    op : {MOD_ADD, MOD_REPLACE, MOD_DELETE},
                    kind : PasswordKinds,
                    a : SecretValues, b : SecretValues]
    /\ logOut = NoEvents

LogUnused ==
    /\ logIn = [call |-> "none", op |-> None, kind |-> "userPassword",
                a |-> NoValues, b |-> NoValues]
    /\ logOut = NoEvents

\* add_s called twice, with the two values of the password attribute
AddS ==
    /\ logOut.op = "none"
    /\ logIn.call = "add_s"
    /\ logOut' = [op |-> "add_s",
                  a |-> Handler_add_s(LogDn,
                            LogModlist(None, logIn.kind, logIn.a)),
                  b |-> Handler_add_s(LogDn,
                            LogModlist(None, logIn.kind, logIn.b))]
    /\ UNCHANGED <<logIn, codecVars, mwVars, concVars, dnVars, handlerVars,
                   crudVars>>

\* modify_s called twice, with the two values of the password attribute
ModifyS ==
    /\ logOut.op = "none"
    /\ logIn.call = "modify_s"
    /\ logOut' = [op |-> "modify_s",
                  a |-> Handler_modify_s(LogDn,
                            LogModlist(logIn.op, logIn.kind, logIn.a)),
                  b |-> Handler_modify_s(LogDn,
                            LogModlist(logIn.op, logIn.kind, logIn.b))]
    /\ UNCHANGED <<logIn, codecVars, mwVars, concVars, dnVars, handlerVars,
                   crudVars>>

LogNext == AddS \/ ModifyS

-----------------------------------------------------------------------------
(* The values the codec specification draws its inputs from                *)

MaxInt == 12
MaxResultLen == 3

\* booleans, integers and texts an entity's attribute may hold
CodecValues ==
    {PyBool(TRUE), PyBool(FALSE)}
    \cup {PyInt(n) : n \in -MaxInt..MaxInt}
    \cup {PyText(t) : t \in {<<"a">>, <<"a", " ", "b">>, <<"U+E9", "a">>,
                              TextTRUE, TextFALSE, <<"t", "r", "u", "e">>,
                              <<"7">>, <<"0", "0", "7">>, <<"-", "7">>,
                              <<" ", "7">>, <<"7", "a">>}}

\* a referral and an entry whose bytes are not UTF-8
RefUndecodable == Referral([cn |-> <<PyBytes(<<"xC3">>)>>])
EntryUndecodable == RawEntry(PyBytes(<<"c", "n", "=", "b">>),
                             [cn |-> <<PyBytes(<<"xA9">>)>>])

\* the raw results of a search: entries and referrals in any order
ResultUniverse ==
    {<<>>} \cup SeqsUpTo({EntryA, Entry7, EntryRef, RefUndecodable,
                          EntryUndecodable}, MaxResultLen)

NoList == [exc |-> "none", val |-> <<>>]

NoOutput == [op |-> "none", mid |-> PyNone, out |-> PyNone, list |-> NoList]

CodecInput ==
    /\ codecIn \in [val : CodecValues, result : ResultUniverse]
    /\ codecOut = NoOutput

CodecUnused ==
    /\ codecIn = [val |-> PyNone, result |-> <<>>]
    /\ codecOut = NoOutput

\* ldap2py(py2ldap(val))
EncodeDecode ==
    /\ codecOut.op = "none"
    /\ codecOut' = [op |-> "ldap2py(py2ldap)",
                    mid |-> py2ldap(codecIn.val),
                    out |-> ldap2py(py2ldap(codecIn.val)),
                    list |-> NoList]
    /\ UNCHANGED <<codecIn, logVars, mwVars, concVars, dnVars, handlerVars,
                   crudVars>>

\* the entry a search returns for one attribute value on the wire
StoredEntry(bytes) == RawEntry(PyBytes(<<"c", "n", "=", "u", "1">>),
                               [cn |-> <<bytes>>])

\* the value written as add_s and modify_s write it, py2ldap and then
\* utf8_encode, and read back as search_s reads it, convert_ldap_result
WriteRead ==
    /\ codecOut.op = "none"
    /\ \E list \in {convert_ldap_result(
                        <<StoredEntry(utf8_encode(py2ldap(codecIn.val)))>>)} :
          codecOut' = [op |-> "write_read",
                       mid |-> utf8_encode(py2ldap(codecIn.val)),
                       out |-> IF list.exc = "none"
                               THEN list.val[1].attrs.cn[1]
                               ELSE PyRaise(list.exc),
                       list |-> list]
    /\ UNCHANGED <<codecIn, logVars, mwVars, concVars, dnVars, handlerVars,
                   crudVars>>

\* convert_ldap_result(ldap_result)
ConvertResult ==
    /\ codecOut.op = "none"
    /\ codecOut' = [op |-> "convert_ldap_result",
                    mid |-> PyNone,
                    out |-> PyNone,
                    list |-> convert_ldap_result(codecIn.result)]
    /\ UNCHANGED <<codecIn, logVars, mwVars, concVars, dnVars, handlerVars,
                   crudVars>>

CodecNext == EncodeDecode \/ WriteRead \/ ConvertResult

-----------------------------------------------------------------------------
(* keystone/middleware/core.py                                             *)
(* A request is its X-Auth-Token header (Absent when it has none), its     *)
(* body, its content type and its parsed POST parameters.  A parameter map *)
(* is a set of <<key, value>> pairs with distinct keys, the keys text.     *)

\* what jsonutils.loads returns
JObject(pairs) == [t |-> "dict", pairs |-> pairs, n |-> 0, b |-> FALSE]
JArray(n)      == [t |-> "list", pairs |-> {}, n |-> n, b |-> FALSE]
JNumber(n)     == [t |-> "int",  pairs |-> {}, n |-> n, b |-> FALSE]
JString(n)     == [t |-> "text", pairs |-> {}, n |-> n, b |-> FALSE]
JBoolean(b)    == [t |-> "bool", pairs |-> {}, n |-> 0, b |-> b]
JNull          == [t |-> "none", pairs |-> {}, n |-> 0, b |-> FALSE]
JValueError    == [t |-> "ValueError", pairs |-> {}, n |-> 0, b |-> FALSE]

\* the keys of the parameters the model uses
KeySelf == <<"s", "e", "l", "f">>
KeyContext == <<"c", "o", "n", "t", "e", "x", "t">>
KeyPrivate == <<"_", "x">>
KeyTrailing == <<"x", "_">>
KeyPlain == <<"k">>

ParamPairs == {<<KeySelf, "1">>, <<KeyContext, "2">>, <<KeyPrivate, "3">>,
               <<KeyTrailing, "4">>, <<KeyPlain, "5">>}

\* jsonutils.loads on the bodies the model uses; a list, a number and a
\* string are kept by their length or value, which is all bool() reads
loads(body) ==
    CASE body = "{}" -> JObject({})
      [] body = "{\"k\": \"5\"}" -> JObject({<<KeyPlain, "5">>})
      [] body = "{\"self\": \"1\", \"_x\": \"3\", \"k\": \"5\"}" ->
             JObject({<<KeySelf, "1">>, <<KeyPrivate, "3">>, <<KeyPlain, "5">>})
      [] body = "{\"context\": \"2\", \"x_\": \"4\"}" ->
             JObject({<<KeyContext, "2">>, <<KeyTrailing, "4">>})
      [] body = "{\"_x\": \"3\"}" -> JObject({<<KeyPrivate, "3">>})
      [] body = "[]" -> JArray(0)
      [] body = "[\"k\"]" -> JArray(1)
      [] body = "0" -> JNumber(0)
      [] body = "7" -> JNumber(7)
      [] body = "\"\"" -> JString(0)
      [] body = "\"k\"" -> JString(1)
      [] body = "true" -> JBoolean(TRUE)
      [] body = "false" -> JBoolean(FALSE)
      [] body = "null" -> JNull
      [] OTHER -> JValueError

\* bool(v)
JTruthy(v) ==
    CASE v.t = "dict" -> v.pairs # {}
      [] v.t \in {"list", "int", "text"} -> v.n # 0
      [] v.t = "bool" -> v.b
      [] OTHER -> FALSE

\* k.startswith('_')
StartsWithUnderscore(k) == k # <<>> /\ k[1] = "_"

\* a filter that lets every key through
FilterParamsAll(params_parsed) == params_parsed

\* the loop both middlewares end with: params without 'self', 'context'
\* and the keys that begin with an underscore
FilterParams(params_parsed) ==
    {kv \in params_parsed :
        /\ kv[1] \notin {KeySelf, KeyContext}
        /\ ~StartsWithUnderscore(kv[1])}

\* request.environ after process_request and what it returned:
\* is_admin is "unset" while the context has no such key
NoEnviron == [op |-> "none", is_admin |-> "unset", stored |-> FALSE,
              params |-> {}, response |-> None]

\* token == CONF.admin_token, a header that is not there being None
AdminTokenAuth_process_request(request, admin_token) ==
    [NoEnviron EXCEPT
        !.op = "AdminTokenAuthMiddleware",
        !.is_admin = IF (IF request.token = Absent THEN None
                         ELSE request.token) = admin_token
                     THEN "True" ELSE "False"]

PostParams_process_request(request) ==
    [NoEnviron EXCEPT !.op = "PostParamsMiddleware",
                      !.stored = TRUE,
                      !.params = FilterParams(request.params)]

\* the finally clause: if not params_parsed: params_parsed = {}
OrEmptyObject(v) == IF JTruthy(v) THEN v ELSE JObject({})

JsonBody_process_request(request) ==
    IF request.body = "" THEN [NoEnviron EXCEPT !.op = "JsonBodyMiddleware"]
    ELSE IF request.content_type \notin {"application/json", ""}
         THEN [NoEnviron EXCEPT !.op = "JsonBodyMiddleware",
                                !.response = "ValidationError"]
         ELSE IF loads(request.body) = JValueError
              THEN [NoEnviron EXCEPT !.op = "JsonBodyMiddleware",
                                     !.response = "ValidationError"]
              ELSE IF OrEmptyObject(loads(request.body)).t # "dict"
                   THEN [NoEnviron EXCEPT !.op = "JsonBodyMiddleware",
                                          !.response = "ValidationError"]
                   ELSE [NoEnviron EXCEPT
                            !.op = "JsonBodyMiddleware",
                            !.stored = TRUE,
                            !.params = FilterParams(
                                OrEmptyObject(loads(request.body)).pairs)]

\* the requests: the header absent, empty, the usual admin token or another
\* text; every body of loads and two that are not JSON; every subset of
\* the parameters
Tokens == {Absent, "", "ADMIN", "token"}

Bodies == {"", "{}", "{\"k\": \"5\"}",
           "{\"self\": \"1\", \"_x\": \"3\", \"k\": \"5\"}",
           "{\"context\": \"2\", \"x_\": \"4\"}", "{\"_x\": \"3\"}",
           "[]", "[\"k\"]", "0", "7", "\"\"", "\"k\"", "true", "false",
           "null", "{", "k=5"}

ContentTypes == {"", "application/json", "application/xml"}

NoRequest == [token |-> Absent, body |-> "", content_type |-> "",
              params |-> {}]

\* CONF.admin_token: not set, or a text
AdminTokens == {None, "", "ADMIN"}

MwInput ==
    /\ mwIn \in [request : {[NoRequest EXCEPT !.token = t] : t \in Tokens}
                             \cup {[NoRequest EXCEPT !.params = ps] :
                                      ps \in SUBSET ParamPairs}
                             \cup {[NoRequest EXCEPT !.body = b,
                                                     !.content_type = c] :
                                      b \in Bodies, c \in ContentTypes},
                  admin_token : AdminTokens]
    /\ mwOut = NoEnviron

MwUnused ==
    /\ mwIn = [request |-> NoRequest, admin_token |-> None]
    /\ mwOut = NoEnviron

AdminTokenAuth ==
    /\ mwOut.op = "none"
    /\ mwOut' = AdminTokenAuth_process_request(mwIn.request, mwIn.admin_token)
    /\ UNCHANGED <<mwIn, logVars, codecVars, concVars, dnVars, handlerVars,
                   crudVars>>

PostParams ==
    /\ mwOut.op = "none"
    /\ mwOut' = PostParams_process_request(mwIn.request)
    /\ UNCHANGED <<mwIn, logVars, codecVars, concVars, dnVars, handlerVars,
                   crudVars>>

JsonBody ==
    /\ mwOut.op = "none"
    /\ mwOut' = JsonBody_process_request(mwIn.request)
    /\ UNCHANGED <<mwIn, logVars, codecVars, concVars, dnVars, handlerVars,
                   crudVars>>

MwNext == AdminTokenAuth \/ PostParams \/ JsonBody

-----------------------------------------------------------------------------
(* Engine calls in progress at the same time                               *)
(* Two callers, each with its own connections, run one overlay call each   *)
(* against the same directory.  A step is one protocol write, or the reads *)
(* that come before it: the server takes the calls of the two connections  *)
(* in any order.  procs[p] holds the call of caller p, the statement it is *)
(* at (pc), the exception it ended with, and whether the call has reached  *)
(* _add_enabled.                                                           *)

NoProcs == <<>>

ConcUnused == procs = NoProcs

Callers == {1, 2}

\* create(values): the values EnabledEmuMixIn.create hands to BaseLdap.create
\* and the flag it popped, True when the values have none
ConcCreates ==
    {[op |-> "create", id |-> i,
      values |-> [NoKeys EXCEPT !["id"] = i, !["name"] = n, !["enabled"] = e],
      pc |-> "affirm_unique", exc |-> "none", enabling |-> FALSE] :
        i \in Ids, n \in NameValues, e \in {Absent, PyFalse}}

\* update(id, {'enabled': True})
ConcUpdates ==
    {[op |-> "update", id |-> i,
      values |-> [NoKeys EXCEPT !["enabled"] = PyTrue],
      pc |-> "update", exc |-> "none", enabling |-> FALSE] : i \in Ids}

\* the first entity, created disabled: no membership and no group yet
WithDisabled ==
    [EmptyDir(TRUE) EXCEPT !.ent[IdOrder[1]] = OtherEntry("n1")]

ConcNew ==
    /\ conf \in {DefaultConf, [DefaultConf EXCEPT !.use_dumb_member = TRUE]}
    /\ dir \in {EmptyDir(TRUE), WithDisabled}
    /\ last = Idle
    /\ procs \in [Callers -> ConcCreates \cup ConcUpdates]

\* caller p's statement has run to the run state r: on an exception the
\* call is over, otherwise it is at statement pc
Stepped(p, r, pc, enabling) ==
    /\ procs' = [procs EXCEPT ![p].pc = IF Ok(r) THEN pc ELSE "done",
                              ![p].exc = r.exc,
                              ![p].enabling = enabling]
    /\ dir' = r.dir
    /\ UNCHANGED <<conf, last, dnVars, handlerVars, logVars, codecVars,
                   mwVars>>

\* whether the call enables the entity once its entry is written
ConcEnables(c) == Truthy(PopValue(c.values, "enabled", PyTrue))

\* BaseLdap.create, first statement: self.affirm_unique(values)
ConcAffirmUnique ==
    \E p \in Callers :
        /\ procs[p].pc = "affirm_unique"
        /\ \E r \in {affirm_unique(Run(dir),
                                    Popped(procs[p].values, "enabled"))} :
              Stepped(p, r, "add_s", FALSE)

\* BaseLdap.create: conn.add_s(self._id_to_dn(values['id']), attrs)
ConcAddEntry ==
    \E p \in Callers :
        /\ procs[p].pc = "add_s"
        /\ \E r \in {add_s(Run(dir), _id_to_dn_string(procs[p].id),
                            CreateEntry(Popped(procs[p].values, "enabled")))} :
              Stepped(p, r, IF ConcEnables(procs[p]) THEN "_get_enabled"
                            ELSE "done", FALSE)

\* EnabledEmuMixIn.update: the delegated update, here without a change
ConcUpdate ==
    \E p \in Callers :
        /\ procs[p].pc = "update"
        /\ \E r \in {Base_update(Run(dir), procs[p].id,
                                  Popped(procs[p].values, "enabled"),
                                  NoneObj)} :
              Stepped(p, r, "_get_enabled", FALSE)

\* _add_enabled: if not self._get_enabled(object_id)
ConcGetEnabled ==
    \E p \in Callers :
        /\ procs[p].pc = "_get_enabled"
        /\ \E r \in {_get_enabled(Run(dir), procs[p].id)} :
              Stepped(p, r, IF r.ret = TRUE THEN "done" ELSE "modify_s", TRUE)

\* _add_enabled: conn.modify_s(self.enabled_emulation_dn, modlist), a
\* missing group leading to the except clause
ConcModify ==
    \E p \in Callers :
        /\ procs[p].pc = "modify_s"
        /\ \E r \in {modify_s(Run(dir), GROUP,
                               <<Mod(MOD_ADD, "member",
                                     _id_to_dn_string(procs[p].id))>>)} :
              IF r.exc = "NO_SUCH_OBJECT"
              THEN Stepped(p, Caught(r), "group_add_s", TRUE)
              ELSE Stepped(p, r, "done", TRUE)

\* _add_enabled: conn.add_s(self.enabled_emulation_dn, attr_list)
ConcAddGroup ==
    \E p \in Callers :
        /\ procs[p].pc = "group_add_s"
        /\ \E r \in {add_s(Run(dir), GROUP,
                            GroupEntry({_id_to_dn_string(procs[p].id)}
                                       \cup DumbMembers))} :
              Stepped(p, r, "done", TRUE)

ConcNext ==
    \/ ConcAffirmUnique
    \/ ConcAddEntry
    \/ ConcUpdate
    \/ ConcGetEnabled
    \/ ConcModify
    \/ ConcAddGroup

-----------------------------------------------------------------------------
(* Specifications                                                          *)

\* the DN routines applied to every pair of DNs of the universe
InitDN == DnInput /\ HandlerNew /\ CrudUnused /\ LogUnused /\ CodecUnused
    /\ MwUnused /\ ConcUnused

SpecDN == InitDN /\ [][DnNext]_vars

\* one handler, from its construction on, against an arbitrary server
InitHandler ==
    DnUnused /\ HandlerNew /\ CrudUnused /\ LogUnused /\ CodecUnused
    /\ MwUnused /\ ConcUnused

SpecHandler == InitHandler /\ [][HandlerNext]_vars

\* a step of the paged-search loop: result3 returns or raises, and what
\* _paged_search_s does with it
LoopStep == \/ PagedMore
            \/ PagedDone
            \/ PagedUnsupported
            \/ PagedResultFails
            \/ PagedRequestFails

\* the same handler on a server that answers: result3 is a blocking call
\* that returns or raises, so the loop never stops between two steps
SpecHandlerLive == SpecHandler /\ WF_vars(LoopStep)

\* one engine object and the calls made on it, one after the other
InitCrud == DnUnused /\ HandlerNew /\ CrudNew /\ LogUnused /\ CodecUnused
    /\ MwUnused /\ ConcUnused

SpecCrud == InitCrud /\ [][CrudNext]_vars

\* one add_s or modify_s made twice on a KeystoneLDAPHandler
InitLog == DnUnused /\ HandlerNew /\ CrudUnused /\ LogInput /\ CodecUnused
    /\ MwUnused /\ ConcUnused

SpecLog == InitLog /\ [][LogNext]_vars

\* the overlay listing entities that have the object class of its group
InitEmuList ==
    DnUnused /\ HandlerNew /\ EmuListNew /\ LogUnused /\ CodecUnused
    /\ MwUnused /\ ConcUnused

SpecEmuList == InitEmuList /\ [][EmuListNext]_vars

\* the two ways of deleting below an entry, on an entry with children
InitTree == DnUnused /\ HandlerNew /\ TreeNew /\ LogUnused /\ CodecUnused
    /\ MwUnused /\ ConcUnused

SpecTree == InitTree /\ [][TreeNext]_vars

\* overlay create, update and delete calls, one after the other
InitEnabled == DnUnused /\ HandlerNew /\ EnabledNew /\ LogUnused /\ CodecUnused
    /\ MwUnused /\ ConcUnused

SpecEnabled == InitEnabled /\ [][EnabledNext]_vars

\* two overlay calls interleaved on one directory
InitConc == DnUnused /\ HandlerNew /\ ConcNew /\ LogUnused /\ CodecUnused
    /\ MwUnused

SpecConc == InitConc /\ [][ConcNext]_vars

\* the codec routines applied to every value and raw result of the universe
InitCodec == DnUnused /\ HandlerNew /\ CrudUnused /\ LogUnused /\ CodecInput
    /\ MwUnused /\ ConcUnused

SpecCodec == InitCodec /\ [][CodecNext]_vars

\* the request filters applied to every request of the universe
InitMw == DnUnused /\ HandlerNew /\ CrudUnused /\ LogUnused /\ CodecUnused
    /\ MwInput /\ ConcUnused

SpecMw == InitMw /\ [][MwNext]_vars

-----------------------------------------------------------------------------
(* C1  dn_startswith                                                       *)

\* d has strictly more RDNs than a and its trailing Len(a) RDNs are
\* pairwise RDN-equal to a
ProperDescendant(d, a) ==
    /\ Len(d) > Len(a)
    /\ \A i \in 1..Len(a) : is_rdn_equal(d[Len(d) - Len(a) + i], a[i])

\* C1: for every DN a and every proper descendant d of a, whatever the
\* depth difference, dn_startswith(d, a) is true and dn_startswith(a, d) is
\* false.
C1_StartsWithAnyDepth ==
    (dnOut.op = "dn_startswith" /\ ProperDescendant(dnIn.d, dnIn.a))
        => (dnOut.fwd /\ ~dnOut.rev)

-----------------------------------------------------------------------------
(* C2, C3  the paged-search loop                                           *)

\* the entries of all responses of the current search_s, in the order received
RECURSIVE AllRdata(_)
AllRdata(rs) == IF rs = <<>> THEN <<>>
                ELSE AllRdata(SubSeq(rs, 1, Len(rs) - 1)) \o rs[Len(rs)].rdata

\* ret is the list of the non-referral entries of rs, each converted, in order
ReturnsAllOf(rs) ==
    LET kept == SelectSeq(AllRdata(rs), IsEntry)
    IN  /\ ret.exc = "none"
        /\ Len(ret.val) = Len(kept)
        /\ \A i \in 1..Len(kept) : ret.val[i] = ConvertEntry(kept[i])

HasPageControl(r) == \E i \in 1..Len(r.serverctrls) :
                        r.serverctrls[i].controlType = PAGE_OID

\* a search_s that took the paged path has returned, every request of it
\* answered
PagedSearchReturned ==
    /\ hpc = "idle" /\ reqs # <<>> /\ reqs[1].call = "search_ext"
    /\ Len(resps) = Len(reqs)

\* C2: when paging is active and the server answers every page request with
\* a paging control (a cookie on every page but the last), search_s returns
\* exactly the concatenation of the entries of all pages in the order
\* received, referrals aside.
C2_PagedConcatenation ==
    (PagedSearchReturned /\ \A i \in 1..Len(resps) : HasPageControl(resps[i]))
        => ReturnsAllOf(resps)

\* three pages, a referral among them, and more than one entry returned
C2_Witness ==
    /\ PagedSearchReturned
    /\ Len(resps) = MaxPages
    /\ \A i \in 1..Len(resps) : HasPageControl(resps[i])
    /\ \E i \in 1..Len(resps) : resps[i].rdata = <<EntryRef, Entry7>>
    /\ Len(ret.val) >= 2

\* C3: once a response of the paged loop carried no paging control, the
\* page size is zero, and the search_s the handler last ran is either the one
\* that met that response (it returned everything accumulated, that
\* response's entries included) or an unpaged search_s: no request after it
\* carries a paging control.
C3_PagingDisabledForGood ==
    warnings >= 1 =>
        /\ page_size = 0
        /\ hpc = "idle"
        /\ \/ reqs = <<SearchS>>
           \/ /\ \A i \in 1..Len(reqs) : reqs[i].call = "search_ext"
              /\ Len(resps) = Len(reqs)
              /\ ~HasPageControl(resps[Len(resps)])
              /\ ReturnsAllOf(resps)

\* paging was disabled after two pages, and a later search_s went unpaged
C3_Witness ==
    /\ warnings = 1
    /\ reqs = <<SearchS>>
    /\ ret.exc = "none" /\ ret.val # <<>>

-----------------------------------------------------------------------------
(* C4 .. C10  the CRUD engine                                              *)

\* a call has finished and the caller has not yet taken its outcome
Finished == last.op # "idle"

IsWrite(c) == c.call \in {"add_s", "modify_s", "delete_s", "delete_ext_s"}

\* the write calls of the finished call, in the order issued
Writes == SelectSeq(last.log, IsWrite)

IsAdd(c) == c.call = "add_s"

IsGroupWrite(c) == IsWrite(c) /\ c.dn = GROUP

\* C4: when an operation has finished, by return or by exception, every
\* connection it opened has received unbind_s exactly once.
C4_EveryConnectionClosed ==
    Finished => \A i \in 1..Len(last.conns) : last.conns[i] = 1

\* the directory d holds an entity of the configured type (object class and
\* configured filter) with this id
HoldsId(d, id) ==
    Matches(d, id, Query(id, conf.object_class, conf.ldap_filter))

\* the directory d holds an entity of the configured type with this name
HoldsName(d, name) ==
    \E dn \in Ids :
        Matches(d, dn, Query("any", conf.object_class,
                             [name |-> name, desc |-> conf.ldap_filter.desc]))

\* neither probe of create finds anything in d: get sees no entity of the
\* type with the id, get_by_name no entity with the name
ProbesFindNothing(d, values) ==
    /\ ~HoldsId(d, values["id"])
    /\ \A dn \in Ids :
          ~Matches(d, dn, Query("any", conf.object_class,
                                [name |-> values["name"], desc |-> "any"]))

\* C5: where the directory answers the bind, create(values) on a directory
\* that holds an entity of the type with the id or with the name of values
\* raises Conflict, issues no add_s and leaves the directory as it was; and
\* where both probes find nothing, their NotFound does not end the create:
\* it raises neither NotFound nor Conflict and, the tree entry existing,
\* issues the add_s.
C5_CreateConflict ==
    (last.op = "create" /\ conf.bind # "rejected") =>
        /\ (HoldsId(last.pre, last.values["id"])
            \/ HoldsName(last.pre, last.values["name"]))
           => /\ last.exc = "Conflict"
              /\ SelectSeq(last.log, IsAdd) = <<>>
              /\ dir = last.pre
        /\ ProbesFindNothing(last.pre, last.values)
           => /\ last.exc \notin {"NotFound", "Conflict"}
              /\ last.pre.tree => SelectSeq(last.log, IsAdd) # <<>>

\* a create with a fresh id and the name of an existing entity: Conflict
C5_Witness ==
    /\ last.op = "create"
    /\ ~Exists(last.pre, last.values["id"])
    /\ HoldsName(last.pre, last.values["name"])
    /\ last.exc = "Conflict"
    /\ Writes = <<>>

\* the finished call is an update that had a snapshot to compare with
UpdateWithSnapshot ==
    /\ last.op = "update"
    /\ \/ last.old_obj # NoneObj
       \/ Ok(Self_get(Run(last.pre), last.id, AnyFilter))

\* the snapshot update compared the values with: the one supplied, or the
\* entity fetched
Snapshot ==
    IF last.old_obj # NoneObj THEN last.old_obj
    ELSE Self_get(Run(last.pre), last.id, AnyFilter).ret

\* values has key k with a value other than the snapshot's
Differs(k) ==
    /\ HasKey(last.values, k)
    /\ last.values[k] # DictGet(Snapshot, k)

\* the overlay takes the enabled key out of values before update sees it
OverlayTakesEnabled == conf.cls = "EnabledEmuMixIn" /\ EmulationActive

\* the keys of the immutable set that update checks
CheckedImmutable ==
    (conf.immutable_attrs \ ({"id"} \cup conf.attribute_ignore))
        \ (IF OverlayTakesEnabled THEN {"enabled"} ELSE {})

Rejected ==
    /\ last.exc = "ValidationError"
    /\ Writes = <<>>
    /\ dir = last.pre

\* C6 as stated: an update in which some key of the immutable set differs
\* from the snapshot raises ValidationError, issues no write and leaves the
\* directory unchanged.
C6_AnyImmutableRejected ==
    (UpdateWithSnapshot /\ \E k \in conf.immutable_attrs : Differs(k))
        => Rejected

\* C6, amended: an update in which some key of the immutable set, other than
\* id, other than an ignored key and other than the enabled key the overlay
\* handles, differs from the snapshot raises ValidationError, issues no write
\* and leaves the directory unchanged, whatever other keys are in values.
C6_ImmutableRejected ==
    (UpdateWithSnapshot /\ \E k \in CheckedImmutable : Differs(k))
        => Rejected

\* an update changing the immutable name along with desc and enabled
C6_Witness ==
    /\ UpdateWithSnapshot
    /\ "name" \in CheckedImmutable /\ Differs("name")
    /\ Differs("desc") /\ Differs("enabled")
    /\ Rejected

\* every key of values has the value the snapshot has for it
IdenticalUpdate ==
    /\ UpdateWithSnapshot
    /\ \A k \in Keys : HasKey(last.values, k) =>
                          last.values[k] = Snapshot[k]

\* C7 as stated: an update whose values all equal the current entity's
\* issues no write.
C7_IdenticalNoWrite == IdenticalUpdate => Writes = <<>>

\* C7, amended: an update whose values all equal the current entity's
\* leaves the directory unchanged and issues no write, except that under
\* the enabled-emulation overlay values with enabled = False make it issue
\* one modify_s that asks to remove the entity's DN from the emulation
\* group.
C7_IdenticalNoChange ==
    IdenticalUpdate =>
        /\ dir = last.pre
        /\ IF OverlayTakesEnabled /\ last.values["enabled"] = PyFalse
           THEN Writes = <<[call |-> "modify_s", dn |-> GROUP,
                            mods |-> <<Mod(MOD_DELETE, "member", last.id)>>]>>
           ELSE Writes = <<>>

\* an update repeating the name and the desc of the entity: no write
C7_Witness ==
    /\ IdenticalUpdate
    /\ HasKey(last.values, "name") /\ HasKey(last.values, "desc")
    /\ Writes = <<>>

\* C8: no operation ends with a raw no-such-object, already-exists or
\* type-or-value-exists protocol error.
C8_NoRawProtocolError ==
    last.exc \notin {"NO_SUCH_OBJECT", "ALREADY_EXISTS", "TYPE_OR_VALUE_EXISTS"}

\* C9 as stated: create, update and delete on an entity type whose flag is
\* false raise ForbiddenAction and issue no protocol call.
C9_CrudChecksFlags ==
    (last.op \in {"create", "update", "delete"} /\ ~conf.allow[last.op])
        => (last.exc = "ForbiddenAction" /\ last.log = <<>>)

\* C9, amended: check_allow_create, check_allow_update and check_allow_delete
\* raise ForbiddenAction exactly when their flag is false and issue no
\* protocol call; create, update and delete do not consult the flags and
\* never raise ForbiddenAction: the check is left to their caller.
C9_CheckLeftToCaller ==
    /\ last.op = "check_allow" =>
          /\ last.exc = IF conf.allow[last.values["name"]] THEN "none"
                        ELSE "ForbiddenAction"
          /\ last.log = <<>> /\ last.conns = <<>> /\ dir = last.pre
    /\ last.op \in {"create", "update", "delete"} =>
          last.exc # "ForbiddenAction"

\* check_allow_create with allow_create false: ForbiddenAction
C9_Witness ==
    /\ last.op = "check_allow"
    /\ last.values["name"] = "create"
    /\ ~conf.allow["create"]
    /\ last.exc = "ForbiddenAction"

\* C10: under the enabled-emulation overlay a create with enabled = False
\* that returned has issued no write to the emulation group, its result has
\* enabled = False, and a get of the id that follows it and finds the entity
\* reports enabled = False.
C10_CreateDisabled ==
    (/\ last.op = "create"
     /\ OverlayTakesEnabled
     /\ last.values["enabled"] = PyFalse
     /\ last.exc = "none")
        => /\ SelectSeq(last.log, IsGroupWrite) = <<>>
           /\ last.ret["enabled"] = PyFalse
           /\ Ok(Self_get(Run(dir), last.id, AnyFilter))
              => Self_get(Run(dir), last.id, AnyFilter).ret["enabled"] = PyFalse

-----------------------------------------------------------------------------
(* C11  enabling through update                                            *)

\* the modify_s that asks to add the DN of id to the emulation group
MemberAdd(id) ==
    [call |-> "modify_s", dn |-> GROUP,
     mods |-> <<Mod(MOD_ADD, "member", id)>>]

\* the add_s that creates the emulation group
GroupAdd == [call |-> "add_s", dn |-> GROUP, mods |-> <<>>]

\* the finished call is update(id, {enabled: True}) under the overlay on an
\* entity that get finds and that the group does not list
EnablesDisabled ==
    /\ last.op = "update"
    /\ OverlayTakesEnabled
    /\ last.values = [NoKeys EXCEPT !["enabled"] = PyTrue]
    /\ HoldsId(last.pre, last.id)
    /\ last.id \notin last.pre.ent[GROUP].member

\* C11: under the overlay, update(id, {enabled: True}) on a disabled entity
\* returns having issued exactly one modify_s that adds the entity's DN to
\* the emulation group: the only write when the group entry exists, and
\* followed by the add_s that creates the group with that DN when it does
\* not; the get(id) that follows reports enabled = True.
C11_EnableOnce ==
    EnablesDisabled =>
        /\ last.exc = "none"
        /\ Writes = IF Exists(last.pre, GROUP) THEN <<MemberAdd(last.id)>>
                    ELSE <<MemberAdd(last.id), GroupAdd>>
        /\ last.ret["enabled"] = PyTrue
        /\ Ok(Self_get(Run(dir), last.id, AnyFilter))
        /\ Self_get(Run(dir), last.id, AnyFilter).ret["enabled"] = PyTrue

\* the entity was enabled while the group entry did not exist
C11_Witness ==
    /\ EnablesDisabled
    /\ ~Exists(last.pre, GROUP)
    /\ last.id \in dir.ent[GROUP].member

-----------------------------------------------------------------------------
(* C12  the overlay switched off                                           *)

OverlayOps == {"create", "get", "get_all", "update", "delete"}

\* what the BaseLdap method of the finished call does from the directory
\* the call started on
PlainRun ==
    CASE last.op = "create" -> Base_create(Run(last.pre), last.values)
      [] last.op = "get" -> Base_get(Run(last.pre), last.id, AnyFilter)
      [] last.op = "get_all" -> Base_get_all(Run(last.pre), AnyFilter)
      [] last.op = "update" ->
             Base_update(Run(last.pre), last.id, last.values, last.old_obj)
      [] OTHER -> Base_delete(Run(last.pre), last.id)

\* C12: with emulation off, or with 'enabled' among the ignored attributes,
\* each operation of an EnabledEmuMixIn object issues the protocol calls,
\* ends (by return or exception) and returns the value that the BaseLdap
\* method does; it issues no call on the emulation group, and create
\* returns its values as they were passed.
C12_OverlayOffPassesThrough ==
    (last.op \in OverlayOps /\ conf.cls = "EnabledEmuMixIn"
     /\ ~EmulationActive) =>
        /\ last.exc = PlainRun.exc
        /\ last.log = PlainRun.log
        /\ dir = PlainRun.dir
        /\ last.exc = "none" => last.ret = PlainRun.ret
        /\ \A i \in 1..Len(last.log) : last.log[i].dn # GROUP
        /\ (last.op = "create" /\ last.exc = "none") => last.ret = last.values

\* C13: every add_s and modify_s of the logging handler writes its log
\* record before it forwards the call, and the record never holds a password
\* value: two calls that differ only in the values of the password
\* attribute, in whatever letter case its name is written, leave identical
\* log records.
C13_PasswordNeverLogged ==
    (logOut.op # "none" /\ logOut.a.exc = "none" /\ logOut.b.exc = "none") =>
        /\ logOut.a.events[1].what = "log"
        /\ logOut.a.events[2].what = "forward"
        /\ logOut.b.events[1].what = "log"
        /\ logOut.b.events[2].what = "forward"
        /\ logOut.a.events[1] = logOut.b.events[1]

\* C14: is_rdn_equal gives the same answer with its arguments exchanged, is
\* true for an RDN against itself, and gives the same answer for every
\* order of the AVAs inside either RDN.
C14_RdnEqualSymmetric ==
    dnOut.op = "is_rdn_equal" =>
        /\ dnOut.fwd = dnOut.rev
        /\ dnOut.self
        /\ dnOut.perm = {dnOut.fwd}

\* two RDNs of two AVAs each, written in opposite orders and different
\* letter case, found equal
C14_Witness ==
    /\ dnOut.op = "is_rdn_equal"
    /\ dnOut.fwd
    /\ Len(dnIn.d[1]) = 2
    /\ Lower(dnIn.d[1][1].type) = Lower(dnIn.a[1][2].type)
    /\ dnIn.d[1] # dnIn.a[1]

\* the second DN of the pair holds the RDNs of the first in another order
SameRdnsOtherOrder ==
    /\ Len(dnIn.d) = Len(dnIn.a)
    /\ \E p \in Permutations(1..Len(dnIn.d)) :
          \A i \in 1..Len(dnIn.d) : dnIn.a[i] = dnIn.d[p[i]]
    /\ \E i \in 1..Len(dnIn.d) : ~is_rdn_equal(dnIn.d[i], dnIn.a[i])

\* C15: is_dn_equal is true for a DN against itself; it is true exactly when
\* the two DNs have the same number of RDNs and is_rdn_equal holds for the
\* RDNs at each position; the same RDNs in a different order are not equal.
C15_DnEqualPairwise ==
    dnOut.op = "is_dn_equal" =>
        /\ dnOut.self
        /\ dnOut.fwd <=> /\ Len(dnIn.d) = Len(dnIn.a)
                         /\ \A i \in 1..Len(dnIn.d) :
                               i <= Len(dnIn.a) =>
                                   is_rdn_equal(dnIn.d[i], dnIn.a[i])
        /\ SameRdnsOtherOrder => ~dnOut.fwd /\ ~dnOut.rev

C15_Witness ==
    /\ dnOut.op = "is_dn_equal"
    /\ SameRdnsOtherOrder
    /\ ~dnOut.fwd

\* C16: for every boolean b, py2ldap(b) is 'TRUE' or 'FALSE' and
\* ldap2py(py2ldap(b)) is b; for every integer n, ldap2py(py2ldap(n)) is an
\* integer equal to n.
C16_BoolIntRoundTrip ==
    (codecOut.op = "ldap2py(py2ldap)" /\ codecIn.val.t \in {"bool", "int"}) =>
        /\ codecOut.out = codecIn.val
        /\ codecIn.val.t = "bool" =>
              codecOut.mid = PyText(IF codecIn.val.b THEN TextTRUE
                                    ELSE TextFALSE)

\* a negative integer of two digits has made the round trip
C16_Witness ==
    /\ codecOut.op = "ldap2py(py2ldap)"
    /\ codecIn.val.t = "int"
    /\ codecIn.val.n < -9
    /\ codecOut.mid.s = <<"-", "1", "0">>
    /\ codecOut.out.t = "int"

\* C17: every text written to the directory (py2ldap, then utf8_encode) and
\* read back (ldap2py inside convert_ldap_result) comes back as the same
\* text, of the same type and with the same characters, texts of digits
\* and the texts 'TRUE' and 'FALSE' included.
C17_TextRoundTrip ==
    (codecOut.op = "write_read" /\ codecIn.val.t = "text") =>
        codecOut.out = codecIn.val

\* the raw items convert_ldap_result is to keep
Entries(ldap_result) == SelectSeq(ldap_result, IsEntry)

\* C20: convert_ldap_result drops exactly the items without a DN, the
\* referrals, and keeps every other item in the original order; a referral
\* never makes it raise; k entries and r referrals give exactly k entries.
C20_ReferralsDropped ==
    codecOut.op = "convert_ldap_result" =>
        /\ codecOut.list.exc # "none" =>
              \E i \in 1..Len(Entries(codecIn.result)) :
                  EntryRaises(ConvertEntry(Entries(codecIn.result)[i]))
        /\ codecOut.list.exc = "none" =>
              /\ Len(codecOut.list.val) = Len(Entries(codecIn.result))
              /\ \A i \in 1..Len(codecOut.list.val) :
                    codecOut.list.val[i] =
                        ConvertEntry(Entries(codecIn.result)[i])

\* two entries with a referral between them and one that cannot be decoded
\* after them: the two entries came back, in their order
C20_Witness ==
    /\ codecOut.op = "convert_ldap_result"
    /\ codecIn.result = <<Entry7, RefUndecodable, EntryA>>
    /\ codecOut.list.exc = "none"
    /\ Len(codecOut.list.val) = 2
    /\ codecOut.list.val[1].dn = PyText(<<"c", "n", "=", "0", "7">>)

\* the last write of the finished call went to dn, which the directory did
\* not hold: the protocol reported no-such-object for it
MissedTarget(calls, dn) ==
    /\ Writes # <<>>
    /\ Writes[Len(Writes)].call \in calls
    /\ Writes[Len(Writes)].dn = dn
    /\ ~Exists(last.pre, dn)

AllClosed == \A i \in 1..Len(last.conns) : last.conns[i] = 1

\* C18: delete, deleteTree, add_member and remove_member raise the typed
\* NotFound when the protocol reports no-such-object for the target entry,
\* add_member raises Conflict when the member value is already there, and
\* in each of these cases every connection has been closed.
C18_TypedErrors ==
    /\ (last.op = "delete" /\ MissedTarget({"delete_s"}, last.id)) =>
            last.exc = "NotFound" /\ AllClosed
    /\ (last.op = "deleteTree" /\ MissedTarget({"delete_ext_s"}, last.id)) =>
            last.exc = "NotFound" /\ AllClosed
    /\ (last.op \in {"add_member", "remove_member"}
          /\ MissedTarget({"modify_s"}, GROUP)) =>
            last.exc = "NotFound" /\ AllClosed
    /\ (last.op = "add_member" /\ Exists(last.pre, GROUP)
          /\ last.id \in last.pre.ent[GROUP].member
          /\ Writes # <<>>) =>
            last.exc = "Conflict" /\ AllClosed

\* delete of an entity that is not there, on an object that opens more than
\* one connection on the way
C18_Witness ==
    /\ last.op = "delete"
    /\ MissedTarget({"delete_s"}, last.id)
    /\ last.exc = "NotFound"
    /\ Len(last.conns) >= 2

IsDeleteCall(c) == c.call \in {"delete_s", "delete_ext_s"}

\* the DNs of the delete calls of the finished call, in the order issued
DeletedDns ==
    [i \in 1..Len(SelectSeq(last.log, IsDeleteCall)) |->
        SelectSeq(last.log, IsDeleteCall)[i].dn]

IsKidBefore(kid) == kid \in ChildrenOf(last.pre, last.id)

IsEntityBefore(id) ==
    Exists(last.pre, id) /\ last.pre.ent[id].oc = conf.object_class

\* the entries a one-level search under the DN of the call enumerated
EnumeratedBefore ==
    IF last.id = TREE THEN SelectSeq(IdOrder, IsEntityBefore)
    ELSE SelectSeq(KidOrder, IsKidBefore)

\* C19 as stated: deleteTree(id) on an entry with N children issues N delete
\* calls, one per child, in the order the children were enumerated.
C19_DeleteTreePerChild ==
    (last.op = "deleteTree" /\ Exists(last.pre, last.id)
       /\ last.exc = "none") =>
        DeletedDns = SelectSeq(KidOrder, IsKidBefore)

\* C19, amended: deleteTree(id) issues a single delete_ext_s on the entry,
\* with the tree-delete control, which removes the entry and its children;
\* it is _delete_tree_nodes that issues one delete_s per entry its search
\* enumerated, in that order.
C19_DeletePerNode ==
    /\ (last.op = "deleteTree" /\ Exists(last.pre, last.id)
          /\ last.exc = "none") =>
            /\ Writes = <<[call |-> "delete_ext_s", dn |-> last.id,
                           mods |-> <<>>]>>
            /\ ~Exists(dir, last.id)
            /\ ChildrenOf(dir, last.id) = {}
    /\ (last.op = "_delete_tree_nodes" /\ last.exc = "none") =>
            /\ DeletedDns = EnumeratedBefore
            /\ \A i \in 1..Len(Writes) : Writes[i].call = "delete_s"
            /\ Len(Writes) = Len(EnumeratedBefore)

\* _delete_tree_nodes under an entity with three children has issued three
\* deletes and left no child
C19_Witness ==
    /\ last.op = "_delete_tree_nodes"
    /\ last.id = KidParent
    /\ last.pre.kids = KidDns
    /\ DeletedDns = KidOrder
    /\ dir.kids = {}

MemberRemove(id) ==
    [call |-> "modify_s", dn |-> GROUP,
     mods |-> <<Mod(MOD_DELETE, "member", id)>>]

EntryDelete(id) == [call |-> "delete_s", dn |-> id, mods |-> <<>>]

DeletesEmulated ==
    /\ last.op = "delete"
    /\ conf.cls = "EnabledEmuMixIn"
    /\ conf.enabled_emulation

\* the removal of the finished delete failed: the group entry or the member
\* value was missing
RemovalMissed ==
    \/ ~Exists(last.pre, GROUP)
    \/ last.id \notin last.pre.ent[GROUP].member

\* C21: with enabled emulation on, delete(id) issues the membership-removal
\* write before the entry delete; a removal that fails because the group or
\* the member value is missing is swallowed and the entry delete still
\* happens; after a successful delete the DN is not a member of the group.
C21_RemoveThenDelete ==
    DeletesEmulated =>
        /\ Writes # <<>> => Writes[1] = MemberRemove(last.id)
        /\ Writes # <<>> => Writes = <<MemberRemove(last.id),
                                       EntryDelete(last.id)>>
        /\ last.exc = "none" =>
              /\ Len(Writes) = 2
              /\ ~Exists(dir, last.id)
              /\ last.id \notin dir.ent[GROUP].member

\* an entity the group does not list has been deleted: the removal failed
\* with no-such-attribute and the entry delete followed
C21_Witness ==
    /\ DeletesEmulated
    /\ Exists(last.pre, GROUP)
    /\ Exists(last.pre, last.id)
    /\ RemovalMissed
    /\ last.exc = "none"
    /\ Writes = <<MemberRemove(last.id), EntryDelete(last.id)>>

\* the finished call is an overlay create or update that enables its entity
Enables ==
    /\ conf.cls = "EnabledEmuMixIn"
    /\ \/ /\ last.op = "create"
          /\ conf.enabled_emulation
          /\ "enabled" \notin conf.attribute_ignore
          /\ Truthy(PopValue(last.values, "enabled", PyTrue))
       \/ /\ last.op = "update"
          /\ EmulationActive
          /\ Truthy(PopValue(last.values, "enabled", None))

\* C22: the enabled-emulation group entry does not exist until the first
\* enable and is created by it; with dumb-member support on, the group
\* entry, whenever it exists, holds the dumb-member DN and so is not empty.
C22_GroupLazyNeverEmpty ==
    /\ (Finished /\ ~Exists(last.pre, GROUP) /\ Exists(dir, GROUP)) =>
            Enables /\ last.id \in dir.ent[GROUP].member
    /\ (Finished /\ Enables /\ last.exc = "none") => Exists(dir, GROUP)
    /\ (conf.use_dumb_member /\ Exists(dir, GROUP)) =>
            DUMB \in dir.ent[GROUP].member

\* with dumb-member support on, the only enabled entity has been disabled
\* or deleted and the group is left with the dumb member alone
C22_Witness ==
    /\ conf.use_dumb_member
    /\ last.op \in {"update", "delete"}
    /\ last.exc = "none"
    /\ last.pre.ent[GROUP].member = {last.id, DUMB}
    /\ Exists(dir, GROUP)
    /\ dir.ent[GROUP].member = {DUMB}

\* the values BaseLdap.update received: the overlay has popped 'enabled'
EngineValues ==
    IF conf.cls = "EnabledEmuMixIn" /\ EmulationActive
    THEN Popped(last.values, "enabled") ELSE last.values

\* key k of the finished update is neither the id nor ignored, and its
\* requested value differs from the snapshot
ChangedKey(k) ==
    /\ HasKey(EngineValues, k)
    /\ k # "id"
    /\ k \notin conf.attribute_ignore
    /\ ~(HasKey(Snapshot, k) /\ Snapshot[k] = EngineValues[k])

\* the update went past the immutable check and got its connection
UpdateWrote ==
    /\ UpdateWithSnapshot
    /\ conf.bind # "rejected"
    /\ \A k \in Keys : ChangedKey(k) => k \notin conf.immutable_attrs

IsEntityModify(c) == c.call = "modify_s" /\ c.dn = last.id

EntityModifies == SelectSeq(last.log, IsEntityModify)

\* the operations the finished update sent for attribute k
SentFor(k) ==
    IF EntityModifies = <<>> THEN <<>>
    ELSE SelectSeq(EntityModifies[1].mods, LAMBDA m : m.attr = k)

\* C23: for each key of an update that is not the id, not ignored, mutable
\* and differs from the snapshot: None over a present value sends one
\* delete, None over no value nothing, a value over no value one add, a
\* value over a different value one replace; all of them in one modify.
C23_DiffOperations ==
    UpdateWrote =>
        /\ Len(EntityModifies) <= 1
        /\ \A k \in Keys :
              SentFor(k) =
                 IF ~ChangedKey(k) THEN <<>>
                 ELSE IF EngineValues[k] = None
                      THEN IF DictGet(Snapshot, k) # None
                           THEN <<Mod(MOD_DELETE, k, None)>>
                           ELSE <<>>
                      ELSE IF DictGet(Snapshot, k) = None
                           THEN <<Mod(MOD_ADD, k, EngineValues[k])>>
                           ELSE <<Mod(MOD_REPLACE, k, EngineValues[k])>>

\* one update has replaced the name and deleted the description, in one
\* modify call
C23_Witness ==
    /\ UpdateWrote
    /\ Len(EntityModifies) = 1
    /\ Len(SentFor("name")) = 1
    /\ SentFor("name")[1].op = MOD_REPLACE
    /\ SentFor("desc") = <<Mod(MOD_DELETE, "desc", None)>>

IsEntityAdd(c) == c.call = "add_s" /\ c.dn = last.id

\* C24: a successful create(values) issues exactly one add call for the
\* entry and returns the caller's values as they were at the call, no key
\* added, removed or changed, for the plain engine and for the overlay
\* alike, apart from the enabled flag the overlay annotates.
C24_CreateReturnsInput ==
    (last.op = "create" /\ last.exc = "none") =>
        /\ Len(SelectSeq(last.log, IsEntityAdd)) = 1
        /\ \A k \in Keys \ {"enabled"} : last.ret[k] = last.values[k]
        /\ HasKey(last.values, "enabled") =>
              last.ret["enabled"] = last.values["enabled"]

\* a search_s that took the paged path has ended with a request that got
\* no response: the request or the fetch of its result failed
PagedSearchFailed ==
    /\ hpc = "idle" /\ reqs # <<>> /\ reqs[1].call = "search_ext"
    /\ Len(resps) < Len(reqs)

\* C25: when a page request or a result fetch fails inside the paged-search
\* loop, the protocol error reaches the caller of search_s as it is, no
\* request is retried, nothing accumulated from earlier pages is returned,
\* and the page size is what it was.
C25_FailurePropagates ==
    PagedSearchFailed =>
        /\ ret.exc \in ProtocolErrors
        /\ ret.val = <<>>
        /\ Len(reqs) = Len(resps) + 1
        /\ page_size # 0
        /\ \A i \in 1..Len(reqs) : reqs[i].size = page_size
        /\ warnings = 0

\* the fetch of the second page failed after a first page with entries
C25_Witness ==
    /\ PagedSearchFailed
    /\ Len(resps) = 1
    /\ Len(reqs) = 2
    /\ res # <<>>
    /\ ret.exc = "TIMEOUT"
    /\ ret.val = <<>>

\* the cookie a response asks the client to come back with, "" for none
CookieOf(r) == IF pctrls(r.serverctrls) = <<>> THEN ""
               ELSE pctrls(r.serverctrls)[1].cookie

IsPagedSearch == reqs # <<>> /\ reqs[1].call = "search_ext"

\* every page request after the first carries the cookie of the response
\* before it and the page size of the first request; only the last response
\* can be without a cookie; and the loop is left once it is
LoopFollowsCookies ==
    IsPagedSearch =>
        /\ \A i \in 2..Len(reqs) :
              /\ reqs[i].cookie = CookieOf(resps[i - 1])
              /\ reqs[i].cookie # ""
              /\ reqs[i].size = reqs[1].size
        /\ \A i \in 1..Len(resps) : CookieOf(resps[i]) = "" => i = Len(resps)
        /\ (resps # <<>> /\ CookieOf(resps[Len(resps)]) = "") =>
              hpc = "idle" /\ Len(reqs) = Len(resps)
        /\ (hpc = "idle" /\ ret.exc \notin ProtocolErrors) =>
              Len(reqs) = Len(resps)
        /\ hpc = "paging" => Len(reqs) = Len(resps) + 1

\* C29: every page request after the first carries exactly the cookie of the
\* response before it and the page size of the first request; as many page
\* requests are issued as responses are received; the loop ends as soon as a
\* response has an empty cookie or no paging control, and so it ends on
\* every server that eventually returns one of those.
C29_LoopFollowsAndEnds ==
    /\ []LoopFollowsCookies
    /\ (hpc = "paging") ~> (hpc = "idle")

\* three pages were requested, the second and third with the cookies of
\* the first and second response, and the third response ended the loop
C29_Witness ==
    /\ IsPagedSearch
    /\ hpc = "idle"
    /\ Len(reqs) = MaxPages
    /\ Len(resps) = MaxPages
    /\ reqs[2].cookie = "c1"
    /\ reqs[3].cookie = "c2"
    /\ HasPageControl(resps[Len(resps)])

IsTreeSearch(c) == c.call = "search_s" /\ c.dn = TREE

TreeSearches == SelectSeq(last.log, IsTreeSearch)

\* a get that ended with its outcome decided: an entity or NotFound
GetDecided == last.op = "get" /\ last.exc \in {"none", _not_found}

GetMatches == last.pre.tree /\ HoldsId(last.pre, last.id)

ListedEmulated ==
    /\ last.op = "get_all"
    /\ last.exc = "none"
    /\ conf.cls = "EnabledEmuMixIn"
    /\ EmulationActive

IsMember(d, id) == Exists(d, GROUP) /\ id \in d.ent[GROUP].member

\* C27: with enabled emulation on, get_all returns no entity built from a
\* search result whose DN equals the configured group DN under DN equality
\* (case-insensitive, whitespace-normalised), and returns every other
\* result with its enabled flag set to its current group membership.
C27_GroupNeverListed ==
    ListedEmulated =>
        /\ \A i \in 1..Len(last.ret) :
              ~is_dn_equal(ServerDn(last.ret[i]["id"]),
                           conf.enabled_emulation_dn)
        /\ \A id \in Ids :
              HoldsId(last.pre, id) =>
                  \E i \in 1..Len(last.ret) :
                      /\ last.ret[i]["id"] = id
                      /\ last.ret[i]["enabled"] =
                            PyBoolOf(IsMember(last.pre, id))

\* _delete_tree_nodes has run on a connection that was bound
NodesDeleteRan ==
    last.op = "_delete_tree_nodes" /\ last.exc # "INVALID_CREDENTIALS"

\* the search base was there when the entries were enumerated
BaseEnumerated ==
    IF last.id = TREE THEN last.pre.tree
    ELSE Exists(last.pre, last.id)

\* an enumerated entry that has entries below it when its delete comes
NonLeafEnumerated ==
    \E i \in 1..Len(EnumeratedBefore) :
        ChildrenOf(last.pre, EnumeratedBefore[i]) # {}

\* C28: _delete_tree_nodes issues one delete per enumerated entry in
\* enumeration order; an entry that vanished after the enumeration makes its
\* delete report no-such-object, which stops nothing and raises nothing,
\* and every enumerated entry that still existed is deleted; NotFound is
\* raised only for a search base that is missing at enumeration time.
C28_VanishedPassedOver ==
    NodesDeleteRan =>
        /\ last.exc = _not_found <=> ~BaseEnumerated
        /\ (BaseEnumerated /\ ~NonLeafEnumerated) =>
              /\ last.exc = "none"
              /\ DeletedDns = EnumeratedBefore
              /\ \A i \in 1..Len(EnumeratedBefore) :
                    ~Exists(dir, EnumeratedBefore[i])

\* three children were enumerated, the second was removed by another
\* client before its delete, and the third was deleted all the same
C28_Witness ==
    /\ NodesDeleteRan
    /\ last.id = KidParent
    /\ last.pre.kids = KidDns
    /\ last.gone = {KidOrder[2]}
    /\ last.exc = "none"
    /\ DeletedDns = KidOrder
    /\ dir.kids = {}

\* an update that was given a snapshot, found nothing to send for it, and
\* had no enabled value for the overlay to emulate
EmptyDiff ==
    /\ last.op = "update"
    /\ last.old_obj # NoneObj
    /\ ~UpdateHitsImmutable(EngineValues, last.old_obj)
    /\ UpdateModlist(EngineValues, last.old_obj, KeyOrder) = <<>>
    /\ OverlayTakesEnabled => DictGet(last.values, "enabled") = None

IsBind(c) == c.call = "simple_bind_s"

-----------------------------------------------------------------------------
(* C31  AdminTokenAuthMiddleware                                           *)

AdminChecked == mwOut.op = "AdminTokenAuthMiddleware"

\* C31: AdminTokenAuthMiddleware sets is_admin to true only for a request
\* that carries an X-Auth-Token header equal to the configured admin token;
\* a request without the header never gets is_admin = true, whatever the
\* configured admin token is, unset included.
C31_AdminOnlyByToken ==
    (AdminChecked /\ mwOut.is_admin = "True") =>
        /\ mwIn.request.token # Absent
        /\ mwIn.request.token = mwIn.admin_token

-----------------------------------------------------------------------------
(* C32  the parameters the middlewares store                               *)

\* the map the middleware read the parameters from
ParsedInput ==
    IF mwOut.op = "PostParamsMiddleware" THEN mwIn.request.params
    ELSE IF loads(mwIn.request.body).t = "dict"
         THEN loads(mwIn.request.body).pairs
         ELSE {}

IsHiddenKey(k) == k \in {KeySelf, KeyContext} \/ (k # <<>> /\ Head(k) = "_")

\* C32: the parameter map PostParamsMiddleware or JsonBodyMiddleware stored
\* has no key 'self' or 'context' and none that begins with an underscore,
\* and has every other key of the parsed input with its value.
C32_StoredParamsFiltered ==
    mwOut.stored =>
        /\ \A kv \in mwOut.params : ~IsHiddenKey(kv[1])
        /\ \A kv \in ParsedInput : ~IsHiddenKey(kv[1]) => kv \in mwOut.params
        /\ mwOut.params \subseteq ParsedInput

\* a JSON object with 'self', '_x' and 'k' was stored as the map with 'k'
C32_Witness ==
    /\ mwOut.op = "JsonBodyMiddleware"
    /\ mwOut.stored
    /\ Cardinality(ParsedInput) = 3
    /\ mwOut.params = {<<KeyPlain, "5">>}

-----------------------------------------------------------------------------
(* C39  JsonBodyMiddleware on what it cannot take                          *)

JsonBodyRan == mwOut.op = "JsonBodyMiddleware" /\ mwIn.request.body # ""

Accepted == mwIn.request.content_type \in {"application/json", ""}

Rejected39 == mwOut.response = "ValidationError" /\ ~mwOut.stored

\* C39: JsonBodyMiddleware answers a non-empty body of an accepted content
\* type that is JSON but not a JSON object (array, number, string, boolean
\* or null, empty or not) with a ValidationError response and stores no
\* parameters; likewise a body that is not JSON and a content type that is
\* neither application/json nor empty.
C39_NonObjectRejected ==
    JsonBodyRan =>
        /\ ~Accepted => Rejected39
        /\ (Accepted /\ loads(mwIn.request.body) = JValueError) => Rejected39
        /\ (Accepted /\ loads(mwIn.request.body).t
                            \notin {"ValueError", "dict"}) => Rejected39

-----------------------------------------------------------------------------
(* C33  paging on the connections get_connection makes                     *)

\* the handler was connected by get_connection with a page size above 0 and
\* has been searched with
SearchedWithPageSize == conn_page_size > 0 /\ reqs # <<>>

\* C33: a connection obtained through get_connection for an entity type
\* configured with page size p > 0 has paging active: its search_s goes
\* through the paged-search path with a page-size control of p, until a
\* response without a paging control disables paging.
C33_PagingActive ==
    (SearchedWithPageSize /\ warnings = 0) =>
        /\ reqs[1].call = "search_ext"
        /\ reqs[1].size = conn_page_size

-----------------------------------------------------------------------------
(* C34  the enabled flag follows the calls                                 *)

\* get(id) returns an entity on directory d
Gettable(d, id) == Ok(Self_get(Run(d), id, AnyFilter))

\* the enabled flag get(id) reports on directory d
Reported(d, id) == Self_get(Run(d), id, AnyFilter).ret["enabled"]

\* the call that just returned gave id an enabled value: a create, which
\* gives True when its values have none, or an update with one
GaveEnabled(id) ==
    /\ id = last.id
    /\ last.exc = "none"
    /\ \/ last.op = "create"
       \/ last.op = "update" /\ DictGet(last.values, "enabled") # None

GivenEnabled == PopValue(last.values, "enabled", PyTrue)

\* C34: with enabled emulation on, after any sequence of overlay create,
\* update and delete calls get(id) on an existing entity reports the most
\* recent enabled value a create or an update gave for the id (true if the
\* create gave none), and the entity's DN is in the group exactly when that
\* value is true; an update that does not mention enabled leaves the
\* membership as it was.  Stated call by call: a call that gives a value
\* sets it, every other call leaves what get reports as it was.
C34_EnabledFollowsCalls ==
    last.op \in {"create", "update", "delete"} =>
        \A id \in Ids :
            Gettable(dir, id) =>
                /\ Reported(dir, id) = PyBoolOf(IsMember(dir, id))
                /\ IF GaveEnabled(id)
                   THEN Reported(dir, id) = GivenEnabled
                   ELSE Gettable(last.pre, id) =>
                            Reported(dir, id) = Reported(last.pre, id)

-----------------------------------------------------------------------------
(* C38  a failed update and the membership                                 *)

\* the overlay's update, emulation on, ended with the delegated update's
\* ValidationError or NotFound
UpdateFailed ==
    /\ last.op = "update"
    /\ OverlayTakesEnabled
    /\ last.exc \in {"ValidationError", _not_found}

\* C38: with enabled emulation on, an update whose delegated update raises
\* ValidationError or NotFound issues no membership add or removal, so it
\* leaves the entity's enabled state as it was, also when the values
\* carried an enabled flag.
C38_FailedUpdateKeepsEnabled ==
    UpdateFailed =>
        /\ SelectSeq(last.log, IsGroupWrite) = <<>>
        /\ dir.ent[GROUP] = last.pre.ent[GROUP]

\* an update asking to rename and to disable an enabled entity was refused
\* for the name, and the entity is still a member
C38_Witness ==
    /\ UpdateFailed
    /\ last.exc = "ValidationError"
    /\ last.values["enabled"] = PyFalse
    /\ IsMember(last.pre, last.id)
    /\ IsMember(dir, last.id)

-----------------------------------------------------------------------------
(* C37  the configured filter                                              *)

\* the entry of a returned entity satisfies the configured filter
SatisfiesConfigured(d, id) ==
    Matches(d, id, Query("any", conf.object_class, conf.ldap_filter))

\* C37: with a configured ldap filter get, get_by_name and get_all see the
\* same entities: what get_by_name(name) returns satisfies the configured
\* filter, so get on its id would return it too.
C37_ByNameWithinFilter ==
    (last.op = "get_by_name" /\ last.exc = "none") =>
        /\ SatisfiesConfigured(last.pre, last.ret["id"])
        /\ Gettable(last.pre, last.ret["id"])

-----------------------------------------------------------------------------
(* C35  two enables at the same time                                       *)

BothDone == procs # NoProcs /\ \A p \in Callers : procs[p].pc = "done"

\* both calls came to enable their entity
BothEnabled ==
    BothDone /\ \A p \in Callers : procs[p].enabling

\* C35: two enable operations running concurrently on independent
\* connections, for the same entity or for different ones while the group
\* does not exist yet, both complete without raising, and afterwards every
\* entity that was enabled is a member of the group.
C35_ConcurrentEnables ==
    BothEnabled =>
        \A p \in Callers :
            /\ procs[p].exc = "none"
            /\ IsMember(dir, procs[p].id)

-----------------------------------------------------------------------------
(* C36  two creates at the same time                                       *)

\* two entities of the type have the name
NameTwice(d, name) ==
    \E a, b \in Ids :
        /\ a # b
        /\ Matches(d, a, Query("any", conf.object_class,
                               [name |-> name, desc |-> "any"]))
        /\ Matches(d, b, Query("any", conf.object_class,
                               [name |-> name, desc |-> "any"]))

\* C36: under any interleaving of concurrent create calls the directory
\* never holds two entities of the type with the same name: of two creates
\* with equal names and different ids at most one add succeeds and the other
\* raises Conflict.
C36_NamesStayUnique ==
    procs # NoProcs => \A name \in NameValues : ~NameTwice(dir, name)

=============================================================================
